---- MODULE Spec2Model ----
(***************************************************************************)
(* Viewport transform and gesture engine of jppype: the zoom-pan handler   *)
(* and the Point and Rect geometry it is built on.                         *)
(*                                                                         *)
(* Numbers.  A JavaScript number is modelled by an exact rational <<n,d>>  *)
(* in lowest terms with d > 0, extended the IEEE way by <<1,0>> (+Infinity)*)
(* <<-1,0>> (-Infinity) and <<0,0>> (NaN).  Rounding is not modelled.      *)
(*                                                                         *)
(* Zoom levels.  A zoom level z (a base-2 logarithm in the source) is      *)
(* stored as the number 2^z, its zoom factor.  With that representation    *)
(* Math.log2 and Math.pow(2, .) are exact: a sum of zoom levels is the     *)
(* product of the factors, a difference is their quotient, zoom 0 is the   *)
(* factor 1, and the order of zoom levels is the order of the factors.     *)
(***************************************************************************)
EXTENDS Integers, Sequences, FiniteSets, TLC

\* ------------------------------------------------------------------------
\*   Numbers
\* ------------------------------------------------------------------------
Abs(i) == IF i < 0 THEN -i ELSE i

Sign(i) == IF i < 0 THEN -1 ELSE IF i > 0 THEN 1 ELSE 0

\* The greatest common divisor, for b >= 0.
RECURSIVE GCD(_, _)
GCD(a, b) == IF b = 0 THEN a ELSE GCD(b, a % b)

\* The number n/d in lowest terms, for d >= 0; n/0 is an infinity or NaN.
Q(n, d) ==
  IF d = 0 THEN <<Sign(n), 0>>
  ELSE LET g == GCD(n, d) IN <<n \div g, d \div g>>

R(n) == <<n, 1>>

NaN == <<0, 0>>
PosInf == <<1, 0>>
NegInf == <<-1, 0>>
Zero == <<0, 1>>
One == <<1, 1>>
Two == <<2, 1>>
Half == <<1, 2>>

IsNaN(a) == a = NaN
IsFinite(a) == a[2] # 0

RNeg(a) == <<-a[1], a[2]>>

\* Infinity + Infinity is Infinity, Infinity - Infinity is NaN.
RAdd(a, b) ==
  IF a[2] = 0 \/ b[2] = 0
  THEN (IF a[2] = 0 /\ b[2] = 0 /\ a # b THEN NaN ELSE IF a[2] = 0 THEN a ELSE b)
  ELSE LET g == GCD(a[2], b[2])
       IN  Q(a[1] * (b[2] \div g) + b[1] * (a[2] \div g), (a[2] \div g) * b[2])

RSub(a, b) == RAdd(a, RNeg(b))

\* 0 * Infinity is NaN.
RMul(a, b) ==
  IF a[1] = 0 \/ b[1] = 0 \/ a[2] = 0 \/ b[2] = 0 THEN Q(a[1] * b[1], a[2] * b[2])
  ELSE LET g1 == GCD(a[1], b[2])
           g2 == GCD(b[1], a[2])
       IN  <<(a[1] \div g1) * (b[1] \div g2), (a[2] \div g2) * (b[2] \div g1)>>

\* 1/a: 1/0 is +Infinity, 1/Infinity is 0.
RInv(a) == IF a[1] < 0 THEN <<-a[2], -a[1]>> ELSE <<a[2], a[1]>>

\* x/0 is an infinity of the sign of x, 0/0 and Infinity/Infinity are NaN.
RDiv(a, b) == RMul(a, RInv(b))

\* a <= b and a < b; every comparison with NaN is false.
RLe(a, b) ==
  IF a[2] = 0 /\ b[2] = 0 THEN a[1] # 0 /\ b[1] # 0 /\ a[1] <= b[1]
  ELSE /\ a # NaN
       /\ b # NaN
       /\ LET g == GCD(a[2], b[2])
          IN  a[1] * (b[2] \div g) <= b[1] * (a[2] \div g)

RLt(a, b) == RLe(a, b) /\ a # b

\* Math.min and Math.max: NaN if either argument is NaN.
RMin(a, b) == IF a = NaN \/ b = NaN THEN NaN ELSE IF RLe(a, b) THEN a ELSE b
RMax(a, b) == IF a = NaN \/ b = NaN THEN NaN ELSE IF RLe(a, b) THEN b ELSE a

RAbs(a) == <<Abs(a[1]), a[2]>>


\* ------------------------------------------------------------------------
\*   Point (utils/event-listener.ts)
\* ------------------------------------------------------------------------
Pt(x, y) == [x |-> x, y |-> y]

\* A point with integer coordinates.
IPt(x, y) == Pt(R(x), R(y))

ORIGIN == IPt(0, 0)

\* The two coordinates of a point.
Axes == {"x", "y"}

PAdd(p, f) == [c \in Axes |-> RAdd(p[c], f[c])]
PSub(p, f) == [c \in Axes |-> RSub(p[c], f[c])]
PDiv(p, f) == [c \in Axes |-> RDiv(p[c], f[c])]
PMul(p, f) == [c \in Axes |-> RMul(p[c], f[c])]

\* The same with a number as argument.
PDivN(p, f) == [c \in Axes |-> RDiv(p[c], f)]
PMulN(p, f) == [c \in Axes |-> RMul(p[c], f)]

PNeg(p) == [c \in Axes |-> RNeg(p[c])]
PInv(p) == [c \in Axes |-> RInv(p[c])]
PAbsP(p) == [c \in Axes |-> RAbs(p[c])]
PMin(p) == RMin(p.x, p.y)
PMax(p) == RMax(p.x, p.y)
PHasZero(p) == p.x = Zero \/ p.y = Zero
PIsZero(p) == p.x = Zero /\ p.y = Zero
PHasNaN(p) == p.x = NaN \/ p.y = NaN

\* Point.equals: === on both coordinates, so false as soon as one is NaN.
PEquals(p, q) == p = q /\ ~PHasNaN(p)

\* Point.clip with a Point argument: the component-wise minimum.
PClipP(p, r) == [c \in Axes |-> RMin(r[c], p[c])]

\* Point.clip with a Rect argument.
PClip(p, r) == [c \in Axes |-> RMin(r.bottomRight[c], RMax(r.topLeft[c], p[c]))]

\* Point.in with a Rect argument, not strict.
PIn(p, r) == \A c \in Axes : RLe(r.topLeft[c], p[c]) /\ RLe(p[c], r.bottomRight[c])

\* ------------------------------------------------------------------------
\*   Rect (utils/event-listener.ts)
\* ------------------------------------------------------------------------
Rect(tl, br) == [topLeft |-> tl, bottomRight |-> br]

\* The rectangle with integer corners (x1, y1) and (x2, y2).
IRect(x1, y1, x2, y2) == Rect(IPt(x1, y1), IPt(x2, y2))

EMPTY == Rect(ORIGIN, ORIGIN)

RectSize(r) == PSub(r.bottomRight, r.topLeft)
RectCenter(r) == PDivN(PAdd(r.bottomRight, r.topLeft), Two)

\* Rect.checkPositiveSize and Rect.isEmpty: width and height are the
\* coordinates of the size.
checkPositiveSize(r) == \A c \in Axes : RLe(Zero, RSub(r.bottomRight[c], r.topLeft[c]))
isEmpty(r) == \E c \in Axes : RLe(RSub(r.bottomRight[c], r.topLeft[c]), Zero)

\* Rect.fromXY(p.x, q.x, p.y, q.y): on each axis the smaller coordinate goes
\* to topLeft.
RectFromXY(p, q) ==
  Rect([c \in Axes |-> RMin(p[c], q[c])], [c \in Axes |-> RMax(p[c], q[c])])

\* The rectangle of centre center whose half size is halfSize.
RectAround(center, halfSize) == Rect(PSub(center, halfSize), PAdd(center, halfSize))

RectFromCenter(center, size) == RectAround(center, PAbsP(PDivN(size, Two)))

RectTranslate(r, f) == Rect(PAdd(r.topLeft, f), PAdd(r.bottomRight, f))
RectScale(r, s) == Rect(PMul(r.topLeft, s), PMul(r.bottomRight, s))

\* Rect.union with a Rect argument.
RectUnion(a, r) ==
  RectFromXY([c \in Axes |-> RMin(a.topLeft[c], r.topLeft[c])],
                  [c \in Axes |-> RMax(a.bottomRight[c], r.bottomRight[c])])

\* Rect.union with a Point argument: the union with the rectangle spanned by
\* the centre of this and the point.
RectUnionP(a, p) == RectUnion(a, RectFromXY(RectCenter(a), p))

\* Rect.pad with a Point argument, inward; a rectangle padded beyond its size
\* collapses to its centre.
Collapsed(resultingRect) ==
  IF checkPositiveSize(resultingRect) THEN resultingRect
  ELSE RectFromCenter(RectCenter(resultingRect), ORIGIN)

RectPad(r, padding) ==
  Collapsed(Rect(PAdd(r.topLeft, padding), PSub(r.bottomRight, padding)))

\* ------------------------------------------------------------------------
\*   ZoomAreaState (unnamed/part_013)
\*
\*   st is the area state: the fields viewSize, sceneRect, sceneDefaultRect (a
\*   Rect or Null) and maxScale, and the constants the class memoises, which
\*   every setter drops (invalidatedScaleConstants) and the next getter
\*   computes again: defaultScale, minZoom, maxZoom, relativeSceneBoundaries,
\*   with sceneMainDomain beside them.  AreaState builds st from the fields.
\* ------------------------------------------------------------------------
\* An absent optional value (null or undefined).
Null == [null |-> TRUE]

\* The source adds 1e-8 to the fitting scales; the model adds 1/EpsInv.
EpsInv == 16
Eps == Q(1, EpsInv)

\* Math.log2 and Math.pow(2, .) on the zoom representation: the logarithm
\* of a negative number is NaN, log2(0) = -Infinity is the factor 0.
Log2(x) == IF RLe(Zero, x) THEN x ELSE NaN
Pow2(z) == z

\* Zoom levels, as factors: the level 0, the sum and the difference of two
\* levels, and the opposite of a level.
ZoomZero == One
ZAdd(z1, z2) == RMul(z1, z2)
ZSub(z1, z2) == RDiv(z1, z2)
ZNeg(z) == RInv(z)

Transform(center, zoom, coord) == [center |-> center, zoom |-> zoom, coord |-> coord]

\* The coord field of a transform built without one.
NoCoord == "undefined"

\* The getters, in the order AreaState evaluates them: each reads the fields
\* and the constants computed before it.
sceneMainDomain(st) ==
  IF st.sceneDefaultRect # Null /\ ~isEmpty(st.sceneDefaultRect)
  THEN st.sceneDefaultRect
  ELSE st.sceneRect

\* defaultScale without the 1e-8 added to the ratio.
defaultScaleOfRatio(st) ==
  IF isEmpty(st.sceneMainDomain) \/ PHasZero(st.viewSize) THEN One
  ELSE PMin(PDiv(st.viewSize, RectSize(st.sceneMainDomain)))

defaultScale(st) ==
  IF isEmpty(st.sceneMainDomain) \/ PHasZero(st.viewSize) THEN One
  ELSE RAdd(PMin(PDiv(st.viewSize, RectSize(st.sceneMainDomain))), Eps)

scale2zoom(st, s) == Log2(RDiv(s, st.defaultScale))

zoom2scale(st, z) == RMul(Pow2(z), st.defaultScale)

minScale(st) ==
  IF isEmpty(st.sceneRect) THEN One
  ELSE RMin(RAdd(PMin(PDiv(st.viewSize, RectSize(st.sceneRect))), Eps), st.maxScale)

minZoom(st) ==
  IF isEmpty(st.sceneRect) THEN ZoomZero ELSE scale2zoom(st, minScale(st))

maxZoom(st) == scale2zoom(st, st.maxScale)

relativeSceneBoundaries(st) ==
  RectScale(RectTranslate(st.sceneRect, PNeg(st.sceneMainDomain.topLeft)),
            PInv(RectSize(st.sceneMainDomain)))

AreaState(viewSize, sceneRect, sceneDefaultRect, maxScale) ==
  LET fields == [viewSize |-> viewSize, sceneRect |-> sceneRect,
                 sceneDefaultRect |-> sceneDefaultRect, maxScale |-> maxScale]
      domain == fields @@ [sceneMainDomain |-> sceneMainDomain(fields)]
      scaled == domain @@ [defaultScale |-> defaultScale(domain)]
  IN  scaled @@ [minZoom |-> minZoom(scaled), maxZoom |-> maxZoom(scaled),
                 relativeSceneBoundaries |-> relativeSceneBoundaries(scaled)]

scene2relative(st, p) ==
  IF isEmpty(st.sceneMainDomain) THEN Pt(Half, Half)
  ELSE PDiv(PSub(p, st.sceneMainDomain.topLeft), RectSize(st.sceneMainDomain))

relative2scene(st, p) ==
  PAdd(PMul(p, RectSize(st.sceneMainDomain)), st.sceneMainDomain.topLeft)

centerInSceneCoord(st, t) ==
  IF t.coord = "relative" THEN relative2scene(st, t.center) ELSE t.center

centerInRelativeCoord(st, t) ==
  IF t.coord = "relative" THEN t.center ELSE scene2relative(st, t.center)

relativeTransform(st, t) ==
  IF t.coord = "relative" THEN t
  ELSE Transform(scene2relative(st, t.center), t.zoom, "relative")

\* toRelativeCoord, toSceneCoord and toViewCoord on a Point; coord is "view",
\* "relative" or anything else for scene coordinates.
toRelativeCoord(st, p, t, coord) ==
  IF coord = "view" THEN
    IF isEmpty(st.sceneMainDomain) THEN Pt(Half, Half)
    ELSE PAdd(PDiv(PDivN(PSub(p, PDivN(st.viewSize, Two)), zoom2scale(st, t.zoom)),
                   RectSize(st.sceneMainDomain)),
              centerInRelativeCoord(st, t))
  ELSE IF coord = "relative" THEN p
  ELSE scene2relative(st, p)

toSceneCoord(st, p, t, coord) ==
  IF coord = "view" THEN
    PAdd(PDivN(PSub(p, PDivN(st.viewSize, Two)), zoom2scale(st, t.zoom)),
         centerInSceneCoord(st, t))
  ELSE IF coord = "relative" THEN relative2scene(st, p)
  ELSE p

\* toViewCoord without the offset of the centre of the view.
toViewCoordFromCorner(st, p, t, coord) ==
  IF coord = "view" THEN p
  ELSE PMulN(PSub(IF coord = "relative" THEN relative2scene(st, p) ELSE p,
                  centerInSceneCoord(st, t)),
             zoom2scale(st, t.zoom))

toViewCoord(st, p, t, coord) ==
  IF coord = "view" THEN p
  ELSE PAdd(PMulN(PSub(IF coord = "relative" THEN relative2scene(st, p) ELSE p,
                       centerInSceneCoord(st, t)),
                  zoom2scale(st, t.zoom)),
            PDivN(st.viewSize, Two))

transform2VisibleArea(st, t) ==
  RectFromCenter(centerInSceneCoord(st, t),
                 PDivN(st.viewSize, zoom2scale(st, t.zoom)))

\* visibleArea2Transform fitting the rectangle along the axis where it fits
\* largest.
visibleArea2TransformOfMax(st, visibleArea) ==
  Transform(scene2relative(st, RectCenter(visibleArea)),
            scale2zoom(st, PMax(PDiv(st.viewSize, RectSize(visibleArea)))),
            "relative")

\* visibleArea2Transform of a rectangle given in scene coordinates.
visibleArea2Transform(st, visibleArea) ==
  Transform(scene2relative(st, RectCenter(visibleArea)),
            scale2zoom(st, PMin(PDiv(st.viewSize, RectSize(visibleArea)))),
            "relative")

constraintZoom(st, zoom) == RMin(RMax(zoom, st.minZoom), st.maxZoom)

\* The rectangle constraintCenter clips the centre into, before the union
\* with a previous centre: the scene padded by pad.
PaddedBoundaries(st, transform, pad) ==
  IF transform.coord = "relative"
  THEN RectPad(st.relativeSceneBoundaries, PDiv(pad, RectSize(st.sceneMainDomain)))
  ELSE RectPad(st.sceneRect, pad)

centerBoundaries(st, transform) ==
  PaddedBoundaries(st, transform,
    PClipP(PDivN(st.viewSize, RMul(Two, zoom2scale(st, transform.zoom))),
           PDivN(RectSize(st.sceneRect), Two)))

\* The boundaries, enlarged to hold the previous centre if there is one.
WithPrevious(boundaries, previousCenter) ==
  IF previousCenter # Null THEN RectUnionP(boundaries, previousCenter) ELSE boundaries

\* constraintCenter; previousCenter is a Point or Null.
\* constraintCenter without the test of the empty sceneRect.
constraintCenterOfNaN(st, transform, previousCenter) ==
  IF PHasNaN(transform.center)
  THEN [transform EXCEPT !.center = ORIGIN]
  ELSE [transform EXCEPT !.center =
          PClip(transform.center,
                WithPrevious(centerBoundaries(st, transform), previousCenter))]

constraintCenter(st, transform, previousCenter) ==
  IF PHasNaN(transform.center) \/ isEmpty(st.sceneRect)
  THEN [transform EXCEPT !.center = ORIGIN]
  ELSE [transform EXCEPT !.center =
          PClip(transform.center,
                WithPrevious(centerBoundaries(st, transform), previousCenter))]

constraintTransform(st, t) ==
  constraintCenter(st, [t EXCEPT !.zoom = constraintZoom(st, t.zoom)], Null)

\* PivotTranslation with the two scales exchanged in the view branch and the
\* zoom step not inverted in the other.
PivotTranslationSwapped(st, t, newZoom, zoomCenter, coord) ==
  IF coord = "view"
  THEN PMulN(PSub(zoomCenter, PDivN(st.viewSize, Two)),
             RSub(RInv(zoom2scale(st, newZoom)), RInv(zoom2scale(st, t.zoom))))
  ELSE PMulN(PSub(IF coord = "relative" THEN relative2scene(st, zoomCenter)
                  ELSE zoomCenter,
                  centerInSceneCoord(st, t)),
             RSub(One, Pow2(ZSub(newZoom, t.zoom))))

\* The translation of the centre that keeps the pivot zoomCenter in place
\* when the zoom of t becomes newZoom.
PivotTranslation(st, t, newZoom, zoomCenter, coord) ==
  IF coord = "view"
  THEN PMulN(PSub(zoomCenter, PDivN(st.viewSize, Two)),
             RSub(RInv(zoom2scale(st, t.zoom)), RInv(zoom2scale(st, newZoom))))
  ELSE PMulN(PSub(IF coord = "relative" THEN relative2scene(st, zoomCenter)
                  ELSE zoomCenter,
                  centerInSceneCoord(st, t)),
             RSub(One, Pow2(ZNeg(ZSub(newZoom, t.zoom)))))

\* applyZoom once the new zoom is clamped.
ZoomTo(st, t, newZoom, zoomCenter, coord) ==
  IF ZSub(newZoom, t.zoom) = ZoomZero THEN t
  ELSE IF zoomCenter # Null
  THEN Transform(PAdd(centerInSceneCoord(st, t),
                      PivotTranslation(st, t, newZoom, zoomCenter, coord)),
                 newZoom, NoCoord)
  ELSE constraintCenter(st, [t EXCEPT !.zoom = newZoom], Null)

\* applyZoom; zoomCenter is a Point or Null, coord the frame of zoomCenter.
applyZoom(st, t, dZoom, zoomCenter, coord) ==
  ZoomTo(st, t, constraintZoom(st, ZAdd(t.zoom, dZoom)), zoomCenter, coord)

\* ------------------------------------------------------------------------
\*   Actions (ZoomAction) and the store of useZoomTransform
\*
\*   An action is a record; kind names the key that selects the branch of
\*   the reducer, animation is Null when the action has no "animation" key
\*   and [cancelable |-> BOOLEAN] otherwise, cancelable being FALSE when the
\*   action says "cancelable: false".
\* ------------------------------------------------------------------------
SetTransformAction(t, animation) ==
  [kind |-> "transform", transform |-> t, animation |-> animation]
SetCenterAction(p, coord, animation) ==
  [kind |-> "center", center |-> p, coord |-> coord, animation |-> animation]
ZoomAction(dZoom, zoomCenter, zoomCenterCoord, animation) ==
  [kind |-> "zoom", zoom |-> dZoom, zoomCenter |-> zoomCenter,
   zoomCenterCoord |-> zoomCenterCoord, animation |-> animation]
PanAction(d, coord, animation) ==
  [kind |-> "pan", pan |-> d, coord |-> coord, animation |-> animation]
EnsureVisibleAction(r, animation) ==
  [kind |-> "ensureVisible", ensureVisible |-> r, animation |-> animation]
SetSceneRectAction(r) == [kind |-> "sceneRect", sceneRect |-> r, animation |-> Null]
SetSceneDefaultRectAction(r) ==
  [kind |-> "sceneDefaultRect", sceneDefaultRect |-> r, animation |-> Null]
SetViewSizeAction(p) == [kind |-> "viewSize", viewSize |-> p, animation |-> Null]
AnimStepAction(t) == [kind |-> "animStep", animStep |-> t, animation |-> Null]
SyncTransformAction(t) == [kind |-> "syncTransform", syncTransform |-> t, animation |-> Null]

Cancelable == [cancelable |-> TRUE]
NonCancelable == [cancelable |-> FALSE]

\* The store: the area state (st), ZoomTransform._t (t), the transform held in
\* the reducer's state (prevTr), the animator and ZoomTransform.animationTarget.
\* published is the transform the reducer hands to the publish callback
\* syncTransform[1] while it processes an action, Null as long as it has not.
Store(st, t, prevTr, animator, animationTarget) ==
  [st |-> st, t |-> t, prevTr |-> prevTr, animator |-> animator,
   animationTarget |-> animationTarget, published |-> Null]

\* ZoomTransform.scale and ZoomTransform.center.
Scale(s) == zoom2scale(s.st, s.t.zoom)
Center(s) == centerInSceneCoord(s.st, s.t)

isSameTransform(t1, t2) ==
  PEquals(t1.center, t2.center) /\ t1.zoom # NaN /\ t1.zoom = t2.zoom

\* ------------------------------------------------------------------------
\*   Animator (animator.ts is not part of the sources: modelled from the
\*   specification, sections 4.3 and 7)
\*
\*   A running animator holds the keys of its two channels: the centre goes
\*   from c0 to c1 (relative coordinates), the zoom from z0 to z1; ctx is the
\*   zoom-pivot context or Null; easing is the easing of the zoom channel.
\*   frames counts the intermediate frames already played.
\* ------------------------------------------------------------------------
\* The animator at rest.
Idle == [running |-> FALSE]

Running(c0, c1, z0, z1, easing, ctx) ==
  [running |-> TRUE, c0 |-> c0, c1 |-> c1, z0 |-> z0, z1 |-> z1,
   easing |-> easing, ctx |-> ctx, frames |-> 0]

\* Animator.stop with the onStop callback of ZoomTransform.
StopAnimator(s) == [s EXCEPT !.animator = Idle, !.animationTarget = Null]

\* The integer square root of n > 0, by Newton's iteration from x.
RECURSIVE NewtonSqrt(_, _)
NewtonSqrt(n, x) ==
  IF (x + n \div x) \div 2 >= x THEN x ELSE NewtonSqrt(n, (x + n \div x) \div 2)

IntSqrt(n) == IF n <= 0 THEN 0 ELSE NewtonSqrt(n, n)

\* The numbers whose square root is a rational, and that root.
Sqrt(a) == <<IntSqrt(a[1]), IntSqrt(a[2])>>
HasSqrt(a) == a[2] # 0 /\ a[1] >= 0 /\ RMul(Sqrt(a), Sqrt(a)) = a

\* The frame callback of ZoomTransform for the channel values (center, zoom).
FrameTransform(st, an, center, zoom) ==
  IF an.ctx # Null
  THEN applyZoom(st, an.ctx.initialTransform,
                 ZSub(zoom, an.ctx.initialTransform.zoom), an.ctx.zoomCenter, "relative")
  ELSE Transform(center, zoom, "relative")

\* The frame at normalized time 1.
FinalFrame(st, an) == FrameTransform(st, an, an.c1, an.z1)

\* The frame at normalized time 1/2 of an in-out animation, where both
\* channels are half way: the zoom level is the mean of z0 and z1.  Only the
\* frames whose zoom factor is rational are modelled.
HasMidFrame(an) ==
  /\ an.easing = "cubicInOut"
  /\ an.frames = 0
  /\ HasSqrt(RMul(an.z0, an.z1))
  /\ (an.z0 # an.z1 \/ an.c0 # an.c1)

MidFrame(st, an) ==
  FrameTransform(st, an, PDivN(PAdd(an.c0, an.c1), Two), Sqrt(RMul(an.z0, an.z1)))

\* Start equals end: no animation runs, the target is applied as one frame.
Degenerate(an) == an.z0 = an.z1 /\ (an.ctx # Null \/ an.c0 = an.c1)

\* ------------------------------------------------------------------------
\*   The reducer of useZoomTransform
\* ------------------------------------------------------------------------
\* x*x + y*y < m*m for naturals below 2^28, computed on three limbs of 14
\* bits so that no product leaves the 32-bit integers of TLC.
Limb == 128 * 128

Limbs(hi, mid, lo) ==
  <<hi + ((mid + (lo \div Limb)) \div Limb), (mid + (lo \div Limb)) % Limb, lo % Limb>>

SquareLimbs(a1, a0, b1, b0) ==
  Limbs(a1 * a1 + b1 * b1, 2 * a1 * a0 + 2 * b1 * b0, a0 * a0 + b0 * b0)

LimbsLt(u, v) ==
  \/ u[1] < v[1]
  \/ u[1] = v[1] /\ u[2] < v[2]
  \/ u[1] = v[1] /\ u[2] = v[2] /\ u[3] < v[3]

SumSquaresLt(x, y, m) ==
  LimbsLt(SquareLimbs(x \div Limb, x % Limb, y \div Limb, y % Limb),
          SquareLimbs(m \div Limb, m % Limb, 0, 0))

LCM(a, b) == (a \div GCD(a, b)) * b

\* The same for the numerators x/l, y/l and m/l of a common denominator l.
ScaledSquaresLt(p, m, l) ==
  SumSquaresLt(Abs(p.x[1]) * (l \div p.x[2]), Abs(p.y[1]) * (l \div p.y[2]),
               m[1] * (l \div m[2]))

\* p.norm() < m for a number m >= 0, without the square root: the norm is
\* at least each of |x| and |y| and at most their sum; otherwise the squares
\* of the three numbers, brought to a common denominator, decide.
NormLt(p, m) ==
  IF p.y = Zero THEN RLt(RAbs(p.x), m)
  ELSE IF p.x = Zero THEN RLt(RAbs(p.y), m)
  ELSE IF ~RLt(PMax(PAbsP(p)), m) THEN FALSE
  ELSE IF RLt(RAdd(RAbs(p.x), RAbs(p.y)), m) THEN TRUE
  ELSE ScaledSquaresLt(p, m, LCM(LCM(p.x[2], p.y[2]), m[2]))

\* The transform a direct action starts from (tr): the target of the
\* animation in flight if it has one, the transform of the state otherwise.
BaseTransform(s) ==
  IF s.animator.running /\ s.animationTarget # Null THEN s.animationTarget
  ELSE s.prevTr

\* The store once a direct action has stopped the animator.
Stopped(s) == IF s.animator.running THEN StopAnimator(s) ELSE s

\* The publish step: the viewer component always attaches a sync bus, and a
\* transform that is not the same as the one of the reducer's state is
\* published in relative coordinates.
Publish(s, st, newTr) ==
  IF isSameTransform(newTr, s.prevTr) THEN s
  ELSE [s EXCEPT !.published = relativeTransform(st, newTr)]

\* newTr becomes the transform of the store (the end of the reducer).
Apply(s, st, newTr) ==
  [Publish(s, st, newTr) EXCEPT !.st = st, !.t = newTr, !.prevTr = newTr]

\* The transform setter alone, as the branch of syncTransform uses it.
Accept(s, newTr) == [s EXCEPT !.t = newTr, !.prevTr = newTr]

\* newTr of the five actions on the transform; tr is the base transform.
SetTransformBranch(s, a) == constraintTransform(s.st, a.transform)

SetCenterBranch(s, tr, a) ==
  constraintCenter(s.st,
    [tr EXCEPT !.center = toSceneCoord(s.st, a.center, tr, a.coord), !.coord = "scene"],
    Null)

ZoomBranch(s, tr, a) == applyZoom(s.st, tr, a.zoom, a.zoomCenter, a.zoomCenterCoord)

\* PanDelta losing the direction of the pan.
PanDeltaUnsigned(s, a) ==
  IF a.coord = "relative" THEN PMul(PAbsP(a.pan), RectSize(s.st.sceneMainDomain))
  ELSE IF a.coord = "view" THEN PMulN(PAbsP(a.pan), Scale(s))
  ELSE PAbsP(a.pan)

\* The translation of a pan in scene units.
PanDelta(s, a) ==
  IF a.coord = "relative" THEN PMul(a.pan, RectSize(s.st.sceneMainDomain))
  ELSE IF a.coord = "view" THEN PMulN(a.pan, Scale(s))
  ELSE a.pan

\* The pan without the boundary.
PanFromUnclamped(s, center, zoom, a) ==
  Transform(PAdd(center, PanDelta(s, a)), zoom, NoCoord)

PanFrom(s, center, zoom, a) ==
  constraintCenter(s.st, Transform(PAdd(center, PanDelta(s, a)), zoom, NoCoord), center)

PanBranch(s, tr, a) == PanFrom(s, centerInSceneCoord(s.st, tr), tr.zoom, a)

EnsureVisibleBranch(s, a) == visibleArea2Transform(s.st, a.ensureVisible)

\* The easing of the zoom channel chosen when the action gives no keys:
\* "three" stands for the three-key animation of a large zoom-in displacement.
\* dz is newTr.zoom - prevTr.zoom, a zoom level: dz < -0.5 reads dz^2 < 1/2 on
\* the factors.
SmallZoomIn(dz) == RLt(dz, Half) \/ (RLt(dz, One) /\ RLt(RMul(dz, dz), Half))

ZoomEasing(s, tr, newTr) ==
  IF RLt(newTr.zoom, s.prevTr.zoom) THEN "cubicOut"
  ELSE IF \/ SmallZoomIn(ZSub(newTr.zoom, s.prevTr.zoom))
          \/ NormLt(PMulN(PSub(centerInSceneCoord(s.st, tr),
                               centerInSceneCoord(s.st, newTr)), Scale(s)),
                    RDiv(PMax(s.st.viewSize), Two))
       THEN "cubicInOut"
  ELSE "three"

\* animatorCtx: the pivot of an animated zoom, unless the three-key animation
\* supplies a centre channel.
AnimatorCtx(s, a, easing) ==
  IF easing # "three" /\ a.kind = "zoom" /\ a.zoomCenter # Null
  THEN [zoomCenter |-> toRelativeCoord(s.st, a.zoomCenter, s.t, a.zoomCenterCoord),
        initialTransform |-> s.prevTr]
  ELSE Null

\* animator.run, then the end of the animation branch: the reducer keeps tr.
Run(s, tr, an, target) ==
  IF Degenerate(an)
  THEN Apply([s EXCEPT !.animator = Idle, !.animationTarget = target],
             s.st, FinalFrame(s.st, an))
  ELSE [s EXCEPT !.prevTr = tr, !.animator = an, !.animationTarget = target]

\* The animation branch taking the centre of the state's transform as the
\* start, without its conversion to relative coordinates.
WithEasingFromCenter(s, a, tr, newTr, easing) ==
  Run(s, tr,
      Running(s.prevTr.center, centerInRelativeCoord(s.st, newTr),
              s.prevTr.zoom, newTr.zoom, easing, AnimatorCtx(s, a, easing)),
      IF a.animation.cancelable = FALSE THEN newTr ELSE Null)

WithEasing(s, a, tr, newTr, easing) ==
  Run(s, tr,
      Running(centerInRelativeCoord(s.st, s.prevTr), centerInRelativeCoord(s.st, newTr),
              s.prevTr.zoom, newTr.zoom, easing, AnimatorCtx(s, a, easing)),
      IF a.animation.cancelable = FALSE THEN newTr ELSE Null)

\* The branch of an action with an "animation" key.
Launch(s, a, tr, newTr) == WithEasing(s, a, tr, newTr, ZoomEasing(s, tr, newTr))

\* A direct action on the transform, newTr being computed: the animator is
\* stopped, then newTr is animated to or becomes the transform.
Direct(s, a, newTr) ==
  IF a.animation # Null THEN Launch(Stopped(s), a, BaseTransform(s), newTr)
  ELSE Apply(Stopped(s), s.st, newTr)

\* The three actions on the geometry: st is the new area state, tr the base
\* transform (made relative for a new default domain).
Geometry(s, st, tr) == Apply(Stopped(s), st, constraintTransform(st, tr))

SetSceneRectBranch(s, a) ==
  Geometry(s, AreaState(s.st.viewSize, a.sceneRect, s.st.sceneDefaultRect, s.st.maxScale),
           BaseTransform(s))

\* The sceneDefaultRect branch making the transform relative to the new
\* default domain, not to the old one.
SetSceneDefaultRectThenRelative(s, a) ==
  Geometry(s, AreaState(s.st.viewSize, s.st.sceneRect, a.sceneDefaultRect, s.st.maxScale),
           relativeTransform(
             AreaState(s.st.viewSize, s.st.sceneRect, a.sceneDefaultRect, s.st.maxScale),
             BaseTransform(s)))

SetSceneDefaultRectBranch(s, a) ==
  Geometry(s, AreaState(s.st.viewSize, s.st.sceneRect, a.sceneDefaultRect, s.st.maxScale),
           relativeTransform(s.st, BaseTransform(s)))

SetViewSizeBranch(s, a) ==
  Geometry(s, AreaState(a.viewSize, s.st.sceneRect, s.st.sceneDefaultRect, s.st.maxScale),
           BaseTransform(s))

\* The syncTransform branch without the stop of the animator.
SyncTransformOverAnimation(s, a) ==
  Accept(s, [a.syncTransform EXCEPT !.zoom = constraintZoom(s.st, a.syncTransform.zoom)])

\* The syncTransform branch ending with the publish step of the other
\* branches.
SyncTransformPublishing(s, a) ==
  StopAnimator(
    Apply(s, s.st, [a.syncTransform EXCEPT !.zoom = constraintZoom(s.st, a.syncTransform.zoom)]))

SyncTransformBranch(s, a) ==
  StopAnimator(
    Accept(s, [a.syncTransform EXCEPT !.zoom = constraintZoom(s.st, a.syncTransform.zoom)]))

AnimStepBranch(s, a) == Apply(s, s.st, a.animStep)

\* The reducer: the store after the action a.
Reduce(s, a) ==
  CASE a.kind = "syncTransform" -> SyncTransformBranch(s, a)
    [] a.kind = "animStep" -> AnimStepBranch(s, a)
    [] a.kind = "transform" -> Direct(s, a, SetTransformBranch(s, a))
    [] a.kind = "center" -> Direct(s, a, SetCenterBranch(s, BaseTransform(s), a))
    [] a.kind = "zoom" -> Direct(s, a, ZoomBranch(s, BaseTransform(s), a))
    [] a.kind = "pan" -> Direct(s, a, PanBranch(s, BaseTransform(s), a))
    [] a.kind = "ensureVisible" -> Direct(s, a, EnsureVisibleBranch(s, a))
    [] a.kind = "sceneRect" -> SetSceneRectBranch(s, a)
    [] a.kind = "sceneDefaultRect" -> SetSceneDefaultRectBranch(s, a)
    [] a.kind = "viewSize" -> SetViewSizeBranch(s, a)

\* ------------------------------------------------------------------------
\*   The default wheel handler (useSceneMouseEventListener)
\* ------------------------------------------------------------------------
\* The zoom level k, for an integer k.
RECURSIVE ZoomLevel(_)
ZoomLevel(k) ==
  IF k = 0 THEN ZoomZero
  ELSE IF k > 0 THEN ZAdd(Two, ZoomLevel(k - 1))
  ELSE ZAdd(Half, ZoomLevel(k + 1))

\* Point.norm, for the points whose norm is a rational.
HasNorm(p) ==
  \/ p.x = Zero
  \/ p.y = Zero
  \/ /\ IsFinite(p.x) /\ IsFinite(p.y)
     /\ Abs(p.x[1]) < 128 /\ p.x[2] < 128 /\ Abs(p.y[1]) < 128 /\ p.y[2] < 128
     /\ HasSqrt(RAdd(RMul(p.x, p.x), RMul(p.y, p.y)))

Norm(p) ==
  IF p.y = Zero THEN RAbs(p.x)
  ELSE IF p.x = Zero THEN RAbs(p.y)
  ELSE Sqrt(RAdd(RMul(p.x, p.x), RMul(p.y, p.y)))

\* Point.clip_norm.
ClipFactor(p, f) == IF RLt(f, One) THEN PMulN(p, f) ELSE p

PClipNorm(p, r) == ClipFactor(p, RDiv(r, RMax(Norm(p), r)))

\* createSceneWheelEvent: the wheel deltas are divided by 100.
SceneWheelEvent(deltaY, viewCursor) == [deltaY |-> Q(deltaY, 100), viewCursor |-> viewCursor]

\* The vector of the pan a wheel event turns into at the minimal zoom.
WheelPanCenter(s) ==
  PSub(toRelativeCoord(s.st, s.t.center, s.t, s.t.coord), Pt(Half, Half))

\* The wheel handler never animating.
WheelAnimationOff(ev) == Null

\* Wheel steps of more than one level are animated: 200 ms, not cancelable.
WheelAnimation(ev) ==
  IF RLt(One, RAbs(ev.deltaY)) THEN [duration |-> 200, cancelable |-> FALSE] ELSE Null

\* onWheel without the pan at the minimal zoom.
onWheelZoomOnly(s, ev) ==
  ZoomAction(ZoomLevel(-ev.deltaY[1]), ev.viewCursor, "view", WheelAnimation(ev))

\* onWheel with the pan at the minimal zoom not negated.
onWheelPanOutward(s, ev) ==
  IF ~IsNaN(s.t.zoom) /\ s.t.zoom = s.st.minZoom /\ RLt(Zero, ev.deltaY)
  THEN PanAction(PClipNorm(WheelPanCenter(s), RMul(Half, ev.deltaY)),
                 "relative", WheelAnimation(ev))
  ELSE ZoomAction(ZoomLevel(-ev.deltaY[1]), ev.viewCursor, "view", WheelAnimation(ev))

\* The action the default onWheel dispatches for the wheel event ev; the
\* deltas are whole zoom levels.
onWheel(s, ev) ==
  IF ~IsNaN(s.t.zoom) /\ s.t.zoom = s.st.minZoom /\ RLt(Zero, ev.deltaY)
  THEN PanAction(PNeg(PClipNorm(WheelPanCenter(s), RMul(Half, ev.deltaY))),
                 "relative", WheelAnimation(ev))
  ELSE ZoomAction(ZoomLevel(-ev.deltaY[1]), ev.viewCursor, "view", WheelAnimation(ev))


\* The zoom of a transform is held as its factor 2^zoom; the getter
\* visibleArea reads the number of levels itself, which is recovered for
\* the whole levels up to MaxLevel.
MaxLevel == 4
Levels == (0 - MaxLevel)..MaxLevel
HasLevel(z) == \E k \in Levels : ZoomLevel(k) = z
LevelOf(z) == CHOOSE k \in Levels : ZoomLevel(k) = z

\* ZoomTransform.visibleArea.
visibleArea(s) ==
  RectFromCenter(s.t.center, PDivN(s.st.viewSize, R(LevelOf(s.t.zoom))))
\* ------------------------------------------------------------------------
\*   The mouse listener (useSceneMouseEventListener) with the default
\*   handlers (no userEvents, hoverEvents on)
\*
\*   The listener is a record m: the store (s), clickTimers, the ZoomControls
\*   (ctrls), the cursorPos state of the hook and the calls made to the
\*   handlers of "events" and to dispatch, in order (emitted).
\* ------------------------------------------------------------------------
\* A DOM MouseEvent: viewPos is (clientX, clientY) minus the corner of the
\* node, movement is (movementX, movementY).
MouseEvent(type, button, viewPos, movement) ==
  [type |-> type, button |-> button, viewPos |-> viewPos, movement |-> movement]

\* Math.floor.
RFloor(a) == IF IsFinite(a) THEN R(a[1] \div a[2]) ELSE a
PFloor(p) == [c \in Axes |-> RFloor(p[c])]

\* ZoomTransform.view2scene.
view2scene(s, p) == PAdd(PDivN(PSub(p, PDivN(s.st.viewSize, Two)), Scale(s)), Center(s))

createSceneMouseEvent(ev, cursor, viewCursor, movement) ==
  [cursor |-> cursor, viewCursor |-> viewCursor, movement |-> movement,
   button |-> ev.button]

\* sceneMouseEvent, as mouseEL builds it.
SceneMouseEvent(s, ev) ==
  createSceneMouseEvent(ev, view2scene(s, ev.viewPos), ev.viewPos,
                        PDivN(ev.movement, Scale(s)))

NoTimers == [b \in 0..4 |-> Null]
NoPan == [panning |-> FALSE, initialEvent |-> Null, lastEvent |-> Null]

Listener(s, clickTimers, ctrls, cursorPos, emitted) ==
  [s |-> s, clickTimers |-> clickTimers, ctrls |-> ctrls, cursorPos |-> cursorPos,
   emitted |-> emitted]

\* A handler of "events" is called with ev.
Called(m, handler, ev) ==
  [m EXCEPT !.emitted = Append(@, [handler |-> handler, ev |-> ev])]

\* ZoomControls.
startPan(m, ev) ==
  [m EXCEPT !.ctrls = [panning |-> TRUE, initialEvent |-> ev, lastEvent |-> ev]]

endPan(m) == [m EXCEPT !.ctrls = NoPan]

PanDispatched(m, a) ==
  [m EXCEPT !.s = Direct(m.s, a, PanBranch(m.s, BaseTransform(m.s), a)),
            !.emitted = Append(@, [handler |-> "dispatch", ev |-> a])]

pan(m, translate) ==
  IF PIsZero(translate) THEN m ELSE PanDispatched(m, PanAction(translate, NoCoord, Null))

\* The default handlers; each starts where the handler has been called.
DefaultMouseDown(m, ev) ==
  IF ev.button = 0 \/ ev.button = 1
  THEN [startPan(m, ev) EXCEPT !.cursorPos = Null]
  ELSE m

onMouseDown(m, ev) == DefaultMouseDown(Called(m, "onMouseDown", ev), ev)

DefaultMouseMove(m, ev) ==
  IF m.ctrls.panning /\ m.ctrls.lastEvent # Null
  THEN pan(m, PNeg(ev.movement))
  ELSE [m EXCEPT !.cursorPos = PFloor(ev.cursor)]

LastEventSet(m, ev) == [m EXCEPT !.ctrls.lastEvent = ev]

onMouseMove(m, ev) == LastEventSet(DefaultMouseMove(Called(m, "onMouseMove", ev), ev), ev)

PanOf(m, ev) ==
  /\ m.ctrls.panning
  /\ m.ctrls.initialEvent # Null
  /\ ev.button = m.ctrls.initialEvent.button

DefaultMouseUp(m, ev) ==
  IF PanOf(m, ev) THEN [endPan(m) EXCEPT !.cursorPos = PFloor(ev.cursor)] ELSE m

onMouseUp(m, ev) == DefaultMouseUp(Called(m, "onMouseUp", ev), ev)

DefaultClick(m, ev) == IF PanOf(m, ev) THEN endPan(m) ELSE m

onClick(m, ev) == DefaultClick(Called(m, "onClick", ev), ev)

DefaultMouseEnter(m, ev) == [m EXCEPT !.cursorPos = PFloor(ev.cursor)]

onMouseEnter(m, ev) == DefaultMouseEnter(Called(m, "onMouseEnter", ev), ev)

DefaultMouseLeave(m) ==
  [(IF m.ctrls.panning THEN endPan(m) ELSE m) EXCEPT !.cursorPos = Null]

onMouseLeave(m, ev) == DefaultMouseLeave(Called(m, "onMouseLeave", ev))

\* A click timer; its timeout is pending as long as the timer is in its slot
\* (or, on a second mousedown, until it is cleared).
ClickTimer(startPos, lastPos, mouseDownEvent) ==
  [startPos |-> startPos, lastPos |-> lastPos, mouseDownEvent |-> mouseDownEvent]

\* The movement ignored while the timer was pending, in scene units.
IgnoredMovement(m, c) == PDivN(PSub(c.lastPos, c.startPos), Scale(m.s))

WithDelta(sceneMouseEvent, movement, delta) ==
  [sceneMouseEvent EXCEPT !.movement = movement, !.cursor = PAdd(@, delta)]

\* mouseEL, "mousemove": within 5 px of the start the move is swallowed;
\* beyond, the deferred mouse-down is delivered, then the move with the
\* ignored movement added.
Deferred(m, c, sceneMouseEvent, delta) ==
  onMouseMove(m, WithDelta(sceneMouseEvent, PAdd(sceneMouseEvent.movement, delta), delta))

MoveWithTimer(m, ev, c, sceneMouseEvent) ==
  IF NormLt(PSub(ev.viewPos, c.startPos), R(5))
  THEN [m EXCEPT !.clickTimers[ev.button].lastPos = ev.viewPos]
  ELSE Deferred(onMouseDown([m EXCEPT !.clickTimers[ev.button] = Null], c.mouseDownEvent),
                c, sceneMouseEvent, IgnoredMovement(m, c))

MouseMoved(m, ev, sceneMouseEvent) ==
  IF m.clickTimers[ev.button] # Null
  THEN MoveWithTimer(m, ev, m.clickTimers[ev.button], sceneMouseEvent)
  ELSE onMouseMove(m, sceneMouseEvent)

\* mouseEL, "mousedown": the timer of the button is (re)armed.
MousePressed(m, ev, sceneMouseEvent) ==
  [m EXCEPT !.clickTimers[ev.button] = ClickTimer(ev.viewPos, ev.viewPos, sceneMouseEvent)]

\* mouseEL, "mouseup".
MouseReleased(m, ev, sceneMouseEvent) ==
  IF m.clickTimers[ev.button] # Null
  THEN onClick([m EXCEPT !.clickTimers[ev.button] = Null], sceneMouseEvent)
  ELSE onMouseUp(m, sceneMouseEvent)

mouseEL(m, ev) ==
  CASE ev.type = "mousemove" -> MouseMoved(m, ev, SceneMouseEvent(m.s, ev))
    [] ev.type = "mousedown" -> MousePressed(m, ev, SceneMouseEvent(m.s, ev))
    [] ev.type = "mouseup" -> MouseReleased(m, ev, SceneMouseEvent(m.s, ev))
    [] ev.type = "mouseenter" -> onMouseEnter(m, SceneMouseEvent(m.s, ev))
    [] ev.type = "mouseleave" -> onMouseLeave(m, SceneMouseEvent(m.s, ev))

\* The timeout of the timer c of the button: the mouse-down is delivered,
\* then a move carrying the ignored movement.  The event of the move is the
\* object of the mouse-down, which startPan has kept as initialEvent.
Aliased(m, mouseDownEvent, moved) ==
  IF m.ctrls.initialEvent = mouseDownEvent
  THEN [m EXCEPT !.ctrls.initialEvent = moved]
  ELSE m

HeldMove(m, c, moved) == onMouseMove(Aliased(m, c.mouseDownEvent, moved), moved)

Held(m, c, delta) == HeldMove(m, c, WithDelta(c.mouseDownEvent, delta, delta))

\* The timeout leaving the timer in its slot.
TimerFiredKeepingSlot(m, button, c) ==
  Held(onMouseDown(m, c.mouseDownEvent), c, IgnoredMovement(m, c))

TimerFired(m, button, c) ==
  Held(onMouseDown([m EXCEPT !.clickTimers[button] = Null], c.mouseDownEvent),
       c, IgnoredMovement(m, c))

\* ------------------------------------------------------------------------
\*   The store as a state machine
\* ------------------------------------------------------------------------
VARIABLES
  viewSize,          \* ZoomAreaState._viewSize
  sceneRect,         \* ZoomAreaState._sceneRect
  sceneDefaultRect,  \* ZoomAreaState._sceneDefaultRect, a Rect or Null
  t,                 \* ZoomTransform._t
  prevTr,            \* the transform in the state of the reducer
  animator,          \* ZoomTransform.animator
  animationTarget,   \* ZoomTransform.animationTarget, a Transform or Null
  published,         \* the transform the last action published on the sync bus, or Null
  dispatched,        \* the number of actions dispatched since the mount
  clickTimers,       \* clickTimers of the mouse listener
  ctrls,             \* the ZoomControls of the mouse listener
  cursorPos,         \* the cursorPos state of the mouse listener
  emitted,           \* the calls to the handlers and to dispatch, in order
  pointer,           \* the mouse: its position in the view, the buttons held down
  received,          \* the number of mouse events received
  press,             \* the press followed: what happened since its pointer-down
  listening,         \* the listeners of the mouse listener are on the node
  call,              \* the last call of a function of the area state, or Null
  peer,              \* the store of the other view of the link group, or Null
  linked,            \* the transform shared by the link group, or Null
  derived,           \* the derived values ZoomAreaState keeps (_minScale, ...)
  jmodel             \* the widget model: syncTimeout, its timers and its saves

storeVars ==
  <<viewSize, sceneRect, sceneDefaultRect, t, prevTr, animator, animationTarget, published>>
listenerVars == <<clickTimers, ctrls, cursorPos, emitted>>
mouseVars == <<listenerVars, pointer, received, press, listening>>

linkVars == <<peer, linked>>

widgetVars == <<derived, jmodel>>

vars == <<storeVars, dispatched, mouseVars, call, linkVars, widgetVars>>

\* maxScale, as the viewer component passes it to useZoomTransform.
MaxScale == 50

TheAreaState == AreaState(viewSize, sceneRect, sceneDefaultRect, R(MaxScale))
TheStore == Store(TheAreaState, t, prevTr, animator, animationTarget)

iniTransform == Transform(Pt(Half, Half), ZoomZero, "relative")

\* The values the collaborators report.
ViewSizes == {IPt(48, 36), IPt(24, 36)}
SceneRects == {EMPTY, IRect(0, 0, 4, 3), IRect(0, 0, 8, 3)}
DefaultRects == {Null, IRect(0, 0, 4, 3), Rect(ORIGIN, Pt(Q(1, 2), Q(3, 8)))}

\* The actions the host and the rulers dispatch.
SetTransformActions ==
  {SetTransformAction(Transform(IPt(1, 1), Two, "scene"), Null),
   SetTransformAction(Transform(Pt(Half, Half), R(1000), "relative"), Cancelable),
   SetTransformAction(Transform(IPt(0, 0), Q(1, 1000), NoCoord), Null)}

SetCenterActions ==
  {SetCenterAction(IPt(2, 1), NoCoord, Null),
   SetCenterAction(IPt(0, 0), "view", Null),
   SetCenterAction(Pt(One, One), "relative", Cancelable)}

ZoomActions ==
  {ZoomAction(Two, Null, NoCoord, Null),
   ZoomAction(Half, Null, NoCoord, Null),
   ZoomAction(Two, IPt(1, 1), NoCoord, Null),
   ZoomAction(Two, Pt(One, Half), "relative", Null)}

PanActions ==
  {PanAction(IPt(1, 0), NoCoord, Null),
   PanAction(IPt(-1, 0), NoCoord, Null),
   PanAction(IPt(0, 1), NoCoord, Null),
   PanAction(IPt(1000, 0), NoCoord, Null),
   PanAction(Pt(Q(-1, 4), Zero), "relative", NonCancelable),
   PanAction(Pt(Q(1, 16), Zero), "view", Null)}

EnsureVisibleActions ==
  {EnsureVisibleAction(IRect(1, 1, 3, 2), Null),
   EnsureVisibleAction(Rect(ORIGIN, Pt(Q(1, 4), Q(1, 4))), Cancelable)}

\* The transforms another store of the link group publishes.
SyncedTransforms == {Transform(Pt(Half, Half), Two, "relative"),
                     Transform(Pt(Two, Zero), R(1000), "relative")}

\* The wheel events: deltaY of the DOM event and the position of the cursor
\* in the view.
WheelEvents ==
  {SceneWheelEvent(dy, IPt(0, 0)) : dy \in {-200, -100, 100, 200}}

\* The model follows the store for MaxDispatched actions after the mount and
\* keeps the centres within MaxCoord of the origin.
MaxDispatched == 2
MaxCoord == 16

InBox(p) ==
  /\ RLe(R(-MaxCoord), p.x) /\ RLe(p.x, R(MaxCoord))
  /\ RLe(R(-MaxCoord), p.y) /\ RLe(p.y, R(MaxCoord))

Bounded(s) ==
  /\ InBox(s.t.center) /\ InBox(s.prevTr.center)
  /\ s.animationTarget # Null => InBox(s.animationTarget.center)

\* The state after the hook is mounted: the store is constructed, then the
\* layout effects dispatch sceneDefaultRect and sceneRect.
Constructed(v, r, d) ==
  Store(AreaState(v, r, d, R(MaxScale)), iniTransform, iniTransform, Idle, Null)

Mounted(v, r, d) ==
  SetSceneRectBranch(
    SetSceneDefaultRectBranch(Constructed(v, r, d), SetSceneDefaultRectAction(d)),
    SetSceneRectAction(r))

Becomes(s) ==
  /\ Bounded(s)
  /\ viewSize' = s.st.viewSize
  /\ sceneRect' = s.st.sceneRect
  /\ sceneDefaultRect' = s.st.sceneDefaultRect
  /\ t' = s.t
  /\ prevTr' = s.prevTr
  /\ animator' = s.animator
  /\ animationTarget' = s.animationTarget
  /\ published' = s.published

Starts(s) ==
  /\ viewSize = s.st.viewSize
  /\ sceneRect = s.st.sceneRect
  /\ sceneDefaultRect = s.st.sceneDefaultRect
  /\ t = s.t
  /\ prevTr = s.prevTr
  /\ animator = s.animator
  /\ animationTarget = s.animationTarget
  /\ published = Null

\* The mouse listener after its effect has run, the mouse at rest, and no
\* call made.
PointerAt(pos, down, inside) == [pos |-> pos, down |-> down, inside |-> inside]

MouseAtRest ==
  /\ clickTimers = NoTimers
  /\ ctrls = NoPan
  /\ cursorPos = Null
  /\ emitted = <<>>
  /\ pointer = PointerAt(IPt(10, 10), {}, TRUE)
  /\ received = 0
  /\ press = Null
  /\ listening = TRUE

\* The view is in no link group.
Unlinked == peer = Null /\ linked = Null

\* No derived value has been read and saveWithTimeout has not been called.
WidgetAtRest == derived = Null /\ jmodel = Null

Init ==
  /\ \E v \in ViewSizes, r \in SceneRects, d \in DefaultRects : Starts(Mounted(v, r, d))
  /\ dispatched = 0
  /\ MouseAtRest
  /\ call = Null
  /\ Unlinked
  /\ WidgetAtRest

\* dispatch: the store becomes s, the result of the reducer.
Dispatched(s) ==
  /\ dispatched < MaxDispatched
  /\ dispatched' = dispatched + 1
  /\ Becomes(s)
  /\ UNCHANGED <<mouseVars, call, linkVars, widgetVars>>

DispatchSetTransform(s, a) == Dispatched(Direct(s, a, SetTransformBranch(s, a)))
DispatchSetCenter(s, a) == Dispatched(Direct(s, a, SetCenterBranch(s, BaseTransform(s), a)))
DispatchZoom(s, a) == Dispatched(Direct(s, a, ZoomBranch(s, BaseTransform(s), a)))
DispatchPan(s, a) == Dispatched(Direct(s, a, PanBranch(s, BaseTransform(s), a)))
DispatchEnsureVisible(s, a) == Dispatched(Direct(s, a, EnsureVisibleBranch(s, a)))

SetTransform == \E a \in SetTransformActions : DispatchSetTransform(TheStore, a)

SetCenter == \E a \in SetCenterActions : DispatchSetCenter(TheStore, a)

Zoom == \E a \in ZoomActions : DispatchZoom(TheStore, a)

Pan == \E a \in PanActions : DispatchPan(TheStore, a)

EnsureVisible == \E a \in EnsureVisibleActions : DispatchEnsureVisible(TheStore, a)

SetSceneRect ==
  \E r \in SceneRects : Dispatched(SetSceneRectBranch(TheStore, SetSceneRectAction(r)))

SetSceneDefaultRect ==
  \E d \in DefaultRects :
    Dispatched(SetSceneDefaultRectBranch(TheStore, SetSceneDefaultRectAction(d)))

SetViewSize ==
  \E v \in ViewSizes : Dispatched(SetViewSizeBranch(TheStore, SetViewSizeAction(v)))

SyncTransform ==
  \E tt \in SyncedTransforms : Dispatched(SyncTransformBranch(TheStore, SyncTransformAction(tt)))

\* wheelEL with the default onWheel: a pan at the minimal zoom, a zoom about
\* the cursor otherwise.
DispatchWheel(s, a) ==
  IF a.kind = "pan" THEN DispatchPan(s, a) ELSE DispatchZoom(s, a)

WheelOn(s, ev) == HasNorm(WheelPanCenter(s)) /\ DispatchWheel(s, onWheel(s, ev))

Wheel == \E ev \in WheelEvents : WheelOn(TheStore, ev)

\* The animator plays a frame: an intermediate one, or the last one, after
\* which it is at rest.
PlayFrame(s, frame, last) ==
  Becomes(IF last THEN StopAnimator(AnimStepBranch(s, AnimStepAction(frame)))
          ELSE [AnimStepBranch(s, AnimStepAction(frame)) EXCEPT !.animator.frames = 1])

AnimStepOn(s) ==
  \/ HasMidFrame(s.animator) /\ PlayFrame(s, MidFrame(s.st, s.animator), FALSE)
  \/ PlayFrame(s, FinalFrame(s.st, s.animator), TRUE)

AnimStep ==
  /\ animator.running
  /\ UNCHANGED <<dispatched, mouseVars, call, linkVars, widgetVars>>
  /\ AnimStepOn(TheStore)

Next ==
  \/ SetTransform
  \/ SetCenter
  \/ Zoom
  \/ Pan
  \/ EnsureVisible
  \/ SetSceneRect
  \/ SetSceneDefaultRect
  \/ SetViewSize
  \/ SyncTransform
  \/ Wheel
  \/ AnimStep

Spec == Init /\ [][Next]_vars

\* ------------------------------------------------------------------------
\*   The functions of the area state, called on drawn inputs
\* ------------------------------------------------------------------------
\* The transforms drawn, valid or not: a NaN centre, a NaN zoom, a centre
\* outside the scene, a zoom beyond the bounds.
Transforms ==
  {Transform(Pt(Half, Half), ZoomZero, "relative"),
   Transform(Pt(Q(1, 4), Q(3, 4)), Two, "relative"),
   Transform(IPt(1, 1), Two, "scene"),
   Transform(IPt(3, 2), R(4), NoCoord),
   Transform(IPt(-5, 7), Half, "scene"),
   Transform(IPt(2, 1), R(1000), "scene"),
   Transform(Pt(NaN, One), One, "scene"),
   Transform(Pt(Half, Half), NaN, "relative")}

Points == {IPt(0, 0), IPt(3, 2), Pt(Q(1, 2), Q(1, 4)), IPt(12, 30)}
Coords == {"view", "scene", "relative", NoCoord}
ZoomDeltas == {Two, Half, ZoomZero, R(8)}

InitPure ==
  /\ viewSize \in ViewSizes
  /\ sceneRect \in SceneRects
  /\ sceneDefaultRect \in DefaultRects
  /\ t \in Transforms
  /\ prevTr = t
  /\ animator = Idle
  /\ animationTarget = Null
  /\ published = Null
  /\ dispatched = 0
  /\ MouseAtRest
  /\ call = Null
  /\ Unlinked
  /\ WidgetAtRest

\* The call of fn with the arguments args, the one call of a run, has
\* returned result.
Returned(fn, args, result) ==
  /\ call = Null
  /\ call' = [fn |-> fn, args |-> args, result |-> result]
  /\ UNCHANGED <<storeVars, dispatched, mouseVars, linkVars, widgetVars>>

CallApplyZoom ==
  \E dZoom \in ZoomDeltas, zoomCenter \in Points \cup {Null}, coord \in Coords :
    Returned("applyZoom", <<dZoom, zoomCenter, coord>>,
             applyZoom(TheAreaState, t, dZoom, zoomCenter, coord))

CallToSceneCoord ==
  \E p \in Points, coord \in Coords :
    Returned("toSceneCoord", <<p, coord>>, toSceneCoord(TheAreaState, p, t, coord))

CallToViewCoord ==
  \E p \in Points, coord \in Coords :
    Returned("toViewCoord", <<p, coord>>, toViewCoord(TheAreaState, p, t, coord))

CallScene2Relative ==
  \E p \in Points : Returned("scene2relative", <<p>>, scene2relative(TheAreaState, p))

CallRelative2Scene ==
  \E p \in Points : Returned("relative2scene", <<p>>, relative2scene(TheAreaState, p))

CallConstraintZoom ==
  Returned("constraintZoom", <<t.zoom>>, constraintZoom(TheAreaState, t.zoom))

CallConstraintCenter ==
  Returned("constraintCenter", <<t>>, constraintCenter(TheAreaState, t, Null))

CallConstraintTransform ==
  Returned("constraintTransform", <<t>>, constraintTransform(TheAreaState, t))

\* The getter defaultScale of an area state built over the scene of the
\* store: the view may have no width, the default domain may be empty.
CallDefaultScale ==
  \E v \in ViewSizes \cup {IPt(0, 36)}, d \in DefaultRects \cup {EMPTY} :
    Returned("defaultScale", <<v, d>>, AreaState(v, sceneRect, d, R(MaxScale)).defaultScale)

\* The options of a layer, as far as View2D reads them.
LayerOptions(domain, visible) == [domain |-> domain, visible |-> visible]

LayerDomains == {IRect(0, 0, 4, 3), IRect(2, 1, 6, 4)}
MaxLayers == 2
LayersOptions ==
  UNION {[1..n -> {LayerOptions(d, v) : d \in LayerDomains, v \in BOOLEAN}] : n \in 0..MaxLayers}

\* The sceneRect View2D computes: Rect.EMPTY united with the domain of every
\* value of layers_options, in order.
RECURSIVE UnionOfDomains(_, _)
UnionOfDomains(rect, layers) ==
  IF layers = <<>> THEN rect
  ELSE UnionOfDomains(RectUnion(rect, Head(layers).domain), Tail(layers))

View2DSceneRect(layers_options) == UnionOfDomains(EMPTY, layers_options)

CallSceneRect ==
  \E layers_options \in LayersOptions :
    Returned("sceneRect", layers_options, View2DSceneRect(layers_options))

NextPure ==
  \/ CallSceneRect
  \/ CallApplyZoom
  \/ CallToSceneCoord
  \/ CallToViewCoord
  \/ CallScene2Relative
  \/ CallRelative2Scene
  \/ CallConstraintZoom
  \/ CallConstraintCenter
  \/ CallConstraintTransform
  \/ CallDefaultScale

SpecPure == InitPure /\ [][NextPure]_vars

\* ------------------------------------------------------------------------
\*   The mouse listener as a state machine
\* ------------------------------------------------------------------------
TheListener == Listener(TheStore, clickTimers, ctrls, cursorPos, emitted)

\* The buttons pressed and the positions the pointer takes in the view.
Buttons == {0, 2}
PointerPositions == {IPt(10, 10), IPt(12, 10), IPt(13, 14), IPt(20, 10)}

\* The model follows the listener for MaxReceived mouse events.
MaxReceived == 4

InitGesture ==
  /\ \E v \in ViewSizes : Starts(Mounted(v, IRect(0, 0, 8, 3), Null))
  /\ dispatched = 0
  /\ MouseAtRest
  /\ call = Null
  /\ Unlinked
  /\ WidgetAtRest

ListenerBecomes(m) ==
  /\ Becomes(m.s)
  /\ clickTimers' = m.clickTimers
  /\ ctrls' = m.ctrls
  /\ cursorPos' = m.cursorPos
  /\ emitted' = m.emitted

\* The node receives the mouse event ev.
Received(ev) ==
  /\ listening
  /\ received < MaxReceived
  /\ received' = received + 1
  /\ ListenerBecomes(mouseEL(TheListener, ev))
  /\ UNCHANGED <<dispatched, call, linkVars, widgetVars, listening>>

\* The press followed: button, startPos and down are those of its
\* pointer-down (down is the scene event built then), mark the number of
\* calls emitted before it; near holds while every position since is less
\* than 5 px from startPos; far once a move at 5 px or more came before the
\* hold timer fired; fired once the hold timer of the button fired; up once
\* the button is released, at endPos, after end calls; alone while nothing
\* but moves came in between: no other pointer-down or pointer-up, and the
\* pointer has not left the node.
Press(button, startPos, down, mark) ==
  [button |-> button, startPos |-> startPos, down |-> down, mark |-> mark,
   near |-> TRUE, far |-> FALSE, fired |-> FALSE, up |-> FALSE, alone |-> TRUE,
   endPos |-> startPos, end |-> mark]

Followed == press # Null /\ ~press.up

PressMoved(p) ==
  IF ~Followed THEN press
  ELSE IF NormLt(PSub(p, press.startPos), R(5)) THEN [press EXCEPT !.endPos = p]
  ELSE [press EXCEPT !.near = FALSE, !.far = @ \/ ~press.fired, !.endPos = p]

MouseDown ==
  \E b \in Buttons \ pointer.down :
    /\ pointer.inside
    /\ Received(MouseEvent("mousedown", b, pointer.pos, ORIGIN))
    /\ pointer' = [pointer EXCEPT !.down = @ \cup {b}]
    /\ press' = IF Followed THEN [press EXCEPT !.alone = FALSE]
                ELSE Press(b, pointer.pos, SceneMouseEvent(TheStore, MouseEvent("mousedown", b, pointer.pos, ORIGIN)),
                           Len(emitted))

\* A mousemove event carries the button 0 (UI Events: the button attribute
\* is 0 when no button changed).
MouseMove ==
  \E p \in PointerPositions \ {pointer.pos} :
    /\ pointer.inside
    /\ Received(MouseEvent("mousemove", 0, p, PSub(p, pointer.pos)))
    /\ pointer' = [pointer EXCEPT !.pos = p]
    /\ press' = PressMoved(p)

MouseUp ==
  \E b \in pointer.down :
    /\ pointer.inside
    /\ Received(MouseEvent("mouseup", b, pointer.pos, ORIGIN))
    /\ pointer' = [pointer EXCEPT !.down = @ \ {b}]
    /\ press' = IF ~Followed THEN press
                ELSE IF b = press.button
                THEN [press EXCEPT !.up = TRUE, !.end = Len(emitted'),
                                   !.endPos = pointer.pos]
                ELSE [press EXCEPT !.alone = FALSE]

MouseLeave ==
  /\ pointer.inside
  /\ Received(MouseEvent("mouseleave", 0, pointer.pos, ORIGIN))
  /\ pointer' = [pointer EXCEPT !.inside = FALSE]
  /\ press' = IF Followed THEN [press EXCEPT !.alone = FALSE] ELSE press

MouseEnter ==
  \E p \in PointerPositions :
    /\ ~pointer.inside
    /\ Received(MouseEvent("mouseenter", 0, p, PSub(p, pointer.pos)))
    /\ pointer' = [pointer EXCEPT !.inside = TRUE, !.pos = p]
    /\ UNCHANGED press

\* The 750 ms of the timer of a button have elapsed.
HoldTimer ==
  \E b \in 0..4 :
    /\ clickTimers[b] # Null
    /\ ListenerBecomes(TimerFired(TheListener, b, clickTimers[b]))
    /\ press' = IF Followed /\ b = press.button THEN [press EXCEPT !.fired = TRUE] ELSE press
    /\ UNCHANGED <<dispatched, call, linkVars, widgetVars, pointer, received, listening>>

\* The cleanup of the effect: the listeners are removed from the node.  The
\* timeouts of clickTimers are left as they are.
Teardown ==
  /\ listening
  /\ listening' = FALSE
  /\ UNCHANGED <<storeVars, dispatched, listenerVars, pointer, received, press, call,
                 linkVars, widgetVars>>

NextGesture ==
  \/ Teardown
  \/ MouseDown
  \/ MouseMove
  \/ MouseUp
  \/ MouseLeave
  \/ MouseEnter
  \/ HoldTimer

SpecGesture == InitGesture /\ [][NextGesture]_vars


\* ------------------------------------------------------------------------
\*   Two views of one link group
\*
\*   Each view has its viewer store, whose transform its publish callback
\*   sets and whose changes its observable hands to the subscription of
\*   useZoomTransform.  The middleware that joins the viewer stores of a link
\*   group (zustand-utils) is not part of the sources: after the
\*   specification, section 4.5, the stores of a group share the last value
\*   set, and a store that did not set it observes it at once.
\* ------------------------------------------------------------------------
\* The transform of a viewer store at its creation.
SharedInitial == Transform(Pt(Half, Half), ZoomZero, "relative")

\* The link group after the store s has processed an action: the transform
\* s published, if any, is the value of the group.
Shared(s, value) == IF s.published = Null THEN value ELSE s.published

\* The subscription of the store s to the observable: the transform p set
\* by the other view is dispatched as syncTransform; nothing is dispatched
\* when the other view published nothing.
Delivered(s, p) ==
  IF p = Null THEN s ELSE SyncTransformBranch(s, SyncTransformAction(p))

\* A store about to process an action: it has published nothing yet.
Fresh(s) == [s EXCEPT !.published = Null]

\* The actions dispatched in the linked views.
LinkedActions ==
  SetTransformActions \cup EnsureVisibleActions \cup
  {SetTransformAction(Transform(Pt(Half, Half), R(4), "relative"), Null),
   SetTransformAction(Transform(Pt(Half, Half), R(4), "scene"), Null),
   ZoomAction(Two, IPt(1, 1), NoCoord, Null),
   PanAction(IPt(1, 0), NoCoord, Null),
   PanAction(Pt(Q(-1, 4), Zero), "relative", NonCancelable)}

\* The geometry of the other view: the same scene in another view, a wider
\* scene with a default domain, no scene yet under a default domain.
PeerStores ==
  {Mounted(IPt(24, 36), IRect(0, 0, 4, 3), Null),
   Mounted(IPt(48, 36), IRect(0, 0, 8, 3), IRect(0, 0, 4, 3)),
   Mounted(IPt(48, 36), EMPTY, Rect(ORIGIN, Pt(Q(1, 2), Q(3, 8))))}

\* The other view is mounted, then this one: what the mount of this view
\* publishes reaches the other view.
InitLinked ==
  /\ \E v \in ViewSizes, r \in SceneRects, p \in PeerStores :
       /\ Starts(Mounted(v, r, Null))
       /\ peer = Delivered(Fresh(p), Mounted(v, r, Null).published)
       /\ linked = Shared(Mounted(v, r, Null), Shared(p, SharedInitial))
  /\ dispatched = 0
  /\ MouseAtRest
  /\ call = Null
  /\ WidgetAtRest

\* The store of this view becomes s and the store of the other view p.
LinkedBecome(s, p, value) ==
  /\ Becomes(s)
  /\ Bounded(p)
  /\ peer' = p
  /\ linked' = value
  /\ UNCHANGED <<mouseVars, call, widgetVars>>

\* This view processes an action, its store becoming s: what it publishes
\* reaches the other view within the dispatch.
Local(s) == LinkedBecome(s, Delivered(Fresh(peer), s.published), Shared(s, linked))

\* The other view processes an action, its store becoming p.
Remote(p) == LinkedBecome(Delivered(TheStore, p.published), p, Shared(p, linked))

LocalOn(s, a) == Local(Reduce(s, a))
RemoteOn(p, a) == Remote(Reduce(p, a))

LocalDispatch ==
  /\ dispatched < MaxDispatched
  /\ dispatched' = dispatched + 1
  /\ \E a \in LinkedActions : LocalOn(TheStore, a)

RemoteDispatch ==
  /\ dispatched < MaxDispatched
  /\ dispatched' = dispatched + 1
  /\ \E a \in LinkedActions : RemoteOn(Fresh(peer), a)

\* The last frame of the animation of a view.
LastFrame(s) == StopAnimator(AnimStepBranch(s, AnimStepAction(FinalFrame(s.st, s.animator))))

LocalFrame ==
  /\ animator.running
  /\ UNCHANGED dispatched
  /\ Local(LastFrame(TheStore))

RemoteFrame ==
  /\ peer.animator.running
  /\ UNCHANGED dispatched
  /\ Remote(LastFrame(Fresh(peer)))

NextLinked == LocalDispatch \/ RemoteDispatch \/ LocalFrame \/ RemoteFrame

SpecLinked == InitLinked /\ [][NextLinked]_vars

\* transform_serializer: the transform as the host keeps it, three numbers
\* and no tag, and the transform read back from them.
serialize(tr) == <<tr.center.x, tr.center.y, tr.zoom>>
deserialize(v) == [center |-> Pt(v[1], v[2]), zoom |-> v[3]]

\* The subscription of the viewer component to its store sets the trait
\* _transform of the widget model at each change: the host is handed the
\* transform of the store, serialized.
HandedToHost == serialize(linked)
\* ------------------------------------------------------------------------
\*   The widget model (JModel.saveWithTimeout) as a state machine
\*
\*   The model is a record: syncTimeout is the id setTimeout returned, or
\*   Null for undefined; timers holds the timeouts that are armed, each with
\*   the time left before it is due; quiet is the time elapsed since the last
\*   call of saveWithTimeout (up to the delay), calls the number of calls,
\*   unsaved the number of calls since the last save_changes, saved the number
\*   of calls of save_changes.
\* ------------------------------------------------------------------------
\* The delay of saveWithTimeout, in ms.
SaveDelay == 300

\* The time the model lets elapse in one step, in ms.
TickMs == 100

\* The number of calls of saveWithTimeout the model follows.
MaxSaveCalls == 5

JModel(syncTimeout, timers, quiet, calls, unsaved, saved) ==
  [syncTimeout |-> syncTimeout, timers |-> timers, quiet |-> quiet, calls |-> calls,
   unsaved |-> unsaved, saved |-> saved]

NewJModel == JModel(Null, {}, SaveDelay, 0, 0, 0)

\* The id of the n-th timeout set.
TimerId(n) == [timer |-> n]

\* setTimeout(callback, SaveDelay), returning id, and clearTimeout(id).
setTimeout(timers, id) == timers \cup {[id |-> id, left |-> SaveDelay]}
clearTimeout(timers, id) == {c \in timers : c.id # id}

\* saveWithTimeout arming its timeout without clearing the pending one.
saveWithTimeoutOverPending(m) ==
  [m EXCEPT !.timers = setTimeout(m.timers, TimerId(m.calls + 1)),
            !.syncTimeout = TimerId(m.calls + 1),
            !.quiet = 0, !.calls = @ + 1, !.unsaved = @ + 1]

saveWithTimeout(m) ==
  [m EXCEPT !.timers = setTimeout(IF m.syncTimeout # Null
                                  THEN clearTimeout(m.timers, m.syncTimeout)
                                  ELSE m.timers,
                                  TimerId(m.calls + 1)),
            !.syncTimeout = TimerId(m.calls + 1),
            !.quiet = 0, !.calls = @ + 1, !.unsaved = @ + 1]

\* The callback of the timeout c: save_changes, then syncTimeout = undefined.
SaveTimeout(m, c) ==
  [m EXCEPT !.timers = @ \ {c}, !.saved = @ + 1, !.unsaved = 0, !.syncTimeout = Null]

Min(a, b) == IF a < b THEN a ELSE b
Max(a, b) == IF a < b THEN b ELSE a

\* ms elapse.
Elapsed(m, ms) ==
  [m EXCEPT !.timers = {[c EXCEPT !.left = Max(0, @ - ms)] : c \in m.timers},
            !.quiet = Min(SaveDelay, @ + ms)]

\* A timeout of the model m is due.
Due(m) == \E c \in m.timers : c.left = 0

InitSave ==
  /\ Starts(Mounted(IPt(48, 36), IRect(0, 0, 4, 3), Null))
  /\ dispatched = 0
  /\ MouseAtRest
  /\ call = Null
  /\ Unlinked
  /\ derived = Null
  /\ jmodel = NewJModel

JModelBecomes(m) ==
  /\ jmodel' = m
  /\ UNCHANGED <<storeVars, dispatched, mouseVars, call, linkVars, derived>>

\* The subscription of View2D to the transform of the viewer store calls
\* saveWithTimeout.
SaveWithTimeout ==
  /\ jmodel.calls < MaxSaveCalls
  /\ ~Due(jmodel)
  /\ JModelBecomes(saveWithTimeout(jmodel))

\* A timeout runs its callback when it is due, before anything else happens.
SaveTimeoutRuns ==
  \E c \in jmodel.timers :
    /\ c.left = 0
    /\ JModelBecomes(SaveTimeout(jmodel, c))

\* Time elapses, as long as it matters to the model.
Elapse ==
  /\ jmodel.timers # {} \/ jmodel.quiet < SaveDelay
  /\ ~Due(jmodel)
  /\ JModelBecomes(Elapsed(jmodel, TickMs))

NextSave ==
  \/ SaveWithTimeout
  \/ SaveTimeoutRuns
  \/ Elapse

SpecSave == InitSave /\ [][NextSave]_vars

\* The same, time elapsing and due timeouts running eventually.
SpecSaveFair ==
  /\ SpecSave
  /\ WF_vars(Elapse)
  /\ WF_vars(SaveTimeoutRuns)
\* ------------------------------------------------------------------------
\*   The derived values of ZoomAreaState as a state machine
\*
\*   derived holds the private fields _minScale, _minZoom, _defaultScale,
\*   _maxZoom and _relativeSceneBoundaries, Null standing for undefined.  A
\*   getter returns the value it keeps, or computes it from the inputs, by
\*   way of the other getters, and keeps it.
\* ------------------------------------------------------------------------
Derived(mins, minz, ds, maxz, rsb) ==
  [minScale |-> mins, minZoom |-> minz, defaultScale |-> ds,
   maxZoom |-> maxz, relativeSceneBoundaries |-> rsb]

invalidatedScaleConstants == Derived(Null, Null, Null, Null, Null)

\* The inputs of the derived values, with the sceneMainDomain getter.
AreaInputs(v, r, d) ==
  LET fields == [viewSize |-> v, sceneRect |-> r, sceneDefaultRect |-> d,
                 maxScale |-> R(MaxScale)]
  IN  fields @@ [sceneMainDomain |-> sceneMainDomain(fields)]

\* What a getter returns and the derived values it leaves.
Got(result, c) == [result |-> result, derived |-> c]

GetDefaultScale(in, c) ==
  IF c.defaultScale # Null THEN Got(c.defaultScale, c)
  ELSE IF isEmpty(in.sceneMainDomain) \/ PHasZero(in.viewSize) THEN Got(One, c)
  ELSE Got(RAdd(PMin(PDiv(in.viewSize, RectSize(in.sceneMainDomain))), Eps),
           [c EXCEPT !.defaultScale =
              RAdd(PMin(PDiv(in.viewSize, RectSize(in.sceneMainDomain))), Eps)])

GetMinScale(in, c) ==
  IF c.minScale # Null THEN Got(c.minScale, c)
  ELSE IF isEmpty(in.sceneRect) THEN Got(One, c)
  ELSE Got(RMin(RAdd(PMin(PDiv(in.viewSize, RectSize(in.sceneRect))), Eps), in.maxScale),
           [c EXCEPT !.minScale =
              RMin(RAdd(PMin(PDiv(in.viewSize, RectSize(in.sceneRect))), Eps), in.maxScale)])

\* scale2zoom of the scale the getter call s has returned.
GetScale2Zoom(in, s) ==
  Got(Log2(RDiv(s.result, GetDefaultScale(in, s.derived).result)),
      GetDefaultScale(in, s.derived).derived)

GetMinZoom(in, c) ==
  IF c.minZoom # Null THEN Got(c.minZoom, c)
  ELSE IF isEmpty(in.sceneRect) THEN Got(ZoomZero, c)
  ELSE Got(GetScale2Zoom(in, GetMinScale(in, c)).result,
           [GetScale2Zoom(in, GetMinScale(in, c)).derived EXCEPT
              !.minZoom = GetScale2Zoom(in, GetMinScale(in, c)).result])

GetMaxZoom(in, c) ==
  IF c.maxZoom # Null THEN Got(c.maxZoom, c)
  ELSE Got(GetScale2Zoom(in, Got(in.maxScale, c)).result,
           [GetScale2Zoom(in, Got(in.maxScale, c)).derived EXCEPT
              !.maxZoom = GetScale2Zoom(in, Got(in.maxScale, c)).result])

GetRelativeSceneBoundaries(in, c) ==
  IF c.relativeSceneBoundaries # Null THEN Got(c.relativeSceneBoundaries, c)
  ELSE Got(relativeSceneBoundaries(in),
           [c EXCEPT !.relativeSceneBoundaries = relativeSceneBoundaries(in)])

TheAreaInputs == AreaInputs(viewSize, sceneRect, sceneDefaultRect)

InitDerived ==
  /\ \E v \in ViewSizes, r \in SceneRects, d \in DefaultRects : Starts(Constructed(v, r, d))
  /\ dispatched = 0
  /\ MouseAtRest
  /\ call = Null
  /\ Unlinked
  /\ derived = invalidatedScaleConstants
  /\ jmodel = Null

\* A setter: the input is assigned and the derived values are invalidated.
InputsBecome(v, r, d) ==
  /\ viewSize' = v
  /\ sceneRect' = r
  /\ sceneDefaultRect' = d
  /\ derived' = invalidatedScaleConstants
  /\ call' = Null
  /\ UNCHANGED <<t, prevTr, animator, animationTarget, published>>
  /\ UNCHANGED <<dispatched, mouseVars, linkVars, jmodel>>

SetViewSizeField == \E v \in ViewSizes : InputsBecome(v, sceneRect, sceneDefaultRect)
SetSceneRectField == \E r \in SceneRects : InputsBecome(viewSize, r, sceneDefaultRect)
SetSceneMainDomainField == \E d \in DefaultRects : InputsBecome(viewSize, sceneRect, d)

\* A getter is read: got is what it returns and leaves.
Read(fn, got) ==
  /\ call' = [fn |-> fn, args |-> <<>>, result |-> got.result]
  /\ derived' = got.derived
  /\ UNCHANGED <<storeVars, dispatched, mouseVars, linkVars, jmodel>>

ReadDefaultScale == Read("get defaultScale", GetDefaultScale(TheAreaInputs, derived))
ReadMinScale == Read("get minScale", GetMinScale(TheAreaInputs, derived))
ReadMinZoom == Read("get minZoom", GetMinZoom(TheAreaInputs, derived))
ReadMaxZoom == Read("get maxZoom", GetMaxZoom(TheAreaInputs, derived))
ReadRelativeSceneBoundaries ==
  Read("get relativeSceneBoundaries", GetRelativeSceneBoundaries(TheAreaInputs, derived))

NextDerived ==
  \/ SetViewSizeField
  \/ SetSceneRectField
  \/ SetSceneMainDomainField
  \/ ReadDefaultScale
  \/ ReadMinScale
  \/ ReadMinZoom
  \/ ReadMaxZoom
  \/ ReadRelativeSceneBoundaries

SpecDerived == InitDerived /\ [][NextDerived]_vars
\* ------------------------------------------------------------------------
\*   Properties of the store
\* ------------------------------------------------------------------------
InZoomRange(st, zoom) == RLe(st.minZoom, zoom) /\ RLe(zoom, st.maxZoom)

\* C1: from every reachable state, every zoom action without animation, with
\* or without a pivot, leaves a zoom within [minZoom, maxZoom] of the current
\* geometry; and minZoom <= maxZoom whenever sceneRect is not empty.
C1_ZoomActionStaysInRange ==
  /\ dispatched < MaxDispatched =>
       \A a \in ZoomActions : InZoomRange(TheAreaState, Reduce(TheStore, a).t.zoom)
  /\ ~isEmpty(sceneRect) => RLe(TheAreaState.minZoom, TheAreaState.maxZoom)

\* C2: in every reachable state of the store the zoom of the transform lies
\* within [minZoom, maxZoom] of the current geometry.
C2_ZoomInRange == InZoomRange(TheAreaState, t.zoom)

\* The centre of tr in the frame of the tag "relative" or in scene
\* coordinates.
CenterIn(st, tr, coord) ==
  IF coord = "relative" THEN centerInRelativeCoord(st, tr) ELSE centerInSceneCoord(st, tr)

\* The centre of tn lies in the boundary of the geometry (v, r, d), enlarged
\* to hold the centre of the transform held before.
CenterWithin(v, r, d, tn, held) ==
  LET st == AreaState(v, r, d, R(MaxScale))
  IN  PIn(tn.center,
          RectUnionP(centerBoundaries(st, tn), CenterIn(st, held, tn.coord)))

\* C3: whenever the transform changes over a non-empty sceneRect, the new
\* centre lies inside the scene padded inward by
\* clip(viewSize / (2 * scale), sceneRect.size / 2) (the relative scene
\* boundary for a relative transform), enlarged at most to include the
\* centre held before the action.
CenterStaysInBoundary ==
  (t' # t /\ ~isEmpty(sceneRect')) =>
    \A v \in {viewSize'}, r \in {sceneRect'}, d \in {sceneDefaultRect'}, tn \in {t'} :
      CenterWithin(v, r, d, tn, t)

C3_CenterInBoundary == [][CenterStaysInBoundary]_vars

\* The pans without animation, and the inverse of a pan.
DirectPans == {a \in PanActions : a.animation = Null}
InversePan(a) == PanAction(PNeg(a.pan), a.coord, Null)

\* The boundary clamps the pan a dispatched from the store s: the centre
\* the reducer leaves is not the centre it started from plus the translation.
Clamped(s, a) ==
  ~PEquals(Center(Reduce(s, a)),
           PAdd(centerInSceneCoord(s.st, BaseTransform(s)), PanDelta(s, a)))

\* The centre comes back to the centre of s after a and its inverse, unless
\* one of the two pans is clamped.
PanUndone(s, a, s1) ==
  (~Clamped(s, a) /\ ~Clamped(s1, InversePan(a))) =>
    Center(Reduce(s1, InversePan(a))) = Center(s)

\* C6 (as claimed): from every reachable state, pan(D) then pan(-D), neither
\* of them clamped, returns the scene-space centre to its original value.
C6_PanInverseAlways ==
  dispatched < MaxDispatched =>
    \A a \in DirectPans : PanUndone(TheStore, a, Reduce(TheStore, a))

\* C6 (amended): the same, from the states where no animation is in flight.
C6_PanInverseAtRest ==
  (dispatched < MaxDispatched /\ ~animator.running) =>
    \A a \in DirectPans : PanUndone(TheStore, a, Reduce(TheStore, a))

\* A state at rest where a pan moves the centre and neither it nor its
\* inverse is clamped.
C6_Witness ==
  /\ dispatched < MaxDispatched /\ ~animator.running
  /\ \E a \in DirectPans :
       /\ ~Clamped(TheStore, a) /\ ~Clamped(Reduce(TheStore, a), InversePan(a))
       /\ Center(Reduce(TheStore, a)) # Center(TheStore)
       /\ Center(Reduce(Reduce(TheStore, a), InversePan(a))) = Center(TheStore)

\* C10: a wheel event with a positive deltaY received while the zoom equals
\* minZoom makes the default handler dispatch a pan, never a zoom.
C10_WheelAtMinZoomPans ==
  \A ev \in WheelEvents :
    (/\ t.zoom = TheAreaState.minZoom /\ ~IsNaN(t.zoom) /\ RLt(Zero, ev.deltaY)
     /\ dispatched < MaxDispatched /\ HasNorm(WheelPanCenter(TheStore))) =>
      onWheel(TheStore, ev).kind = "pan"

\* A state at the minimal zoom, the centre off the middle of the domain,
\* where a wheel event with a positive deltaY turns into a pan that moves
\* the centre.
C10_Witness ==
  /\ t.zoom = TheAreaState.minZoom /\ ~IsNaN(t.zoom)
  /\ dispatched < MaxDispatched
  /\ \E ev \in WheelEvents :
       /\ RLt(Zero, ev.deltaY)
       /\ HasNorm(WheelPanCenter(TheStore))
       /\ onWheel(TheStore, ev).kind = "pan"
       /\ ~PIsZero(onWheel(TheStore, ev).pan)

\* ------------------------------------------------------------------------
\*   Properties of the functions of the area state
\* ------------------------------------------------------------------------
\* A transform with a centre and a zoom that are numbers, over a geometry
\* whose scale is a positive number.
ValidTransform(st, tr) ==
  /\ IsFinite(tr.center.x) /\ IsFinite(tr.center.y) /\ IsFinite(tr.zoom)
  /\ IsFinite(zoom2scale(st, tr.zoom)) /\ RLt(Zero, zoom2scale(st, tr.zoom))

\* The position in the view of the scene point p.
InView(st, p, tr) == toViewCoord(st, p, tr, "scene")

\* The zoom of the call does not hit a zoom bound.
Unclamped(st, tr, dZoom) == constraintZoom(st, ZAdd(tr.zoom, dZoom)) = ZAdd(tr.zoom, dZoom)

PivotStays(st, tr, pivot, result) ==
  PEquals(InView(st, pivot, result), InView(st, pivot, tr))

\* C4: for a valid transform, a pivot given in view, scene or relative
\* coordinates and a delta whose target zoom is not clamped, the scene point
\* under the pivot has the same view coordinates with the transform applyZoom
\* returns as with the transform it was given.
C4_PivotKeepsItsViewPosition ==
  (/\ call # Null /\ call.fn = "applyZoom" /\ call.args[2] # Null
   /\ ValidTransform(TheAreaState, t)
   /\ Unclamped(TheAreaState, t, call.args[1])) =>
    PivotStays(TheAreaState, t, toSceneCoord(TheAreaState, call.args[2], t, call.args[3]),
               call.result)

\* An unclamped zoom about a pivot that is not the centre: the zoom changes,
\* the centre moves.
C4_Witness ==
  /\ call # Null /\ call.fn = "applyZoom" /\ call.args[2] # Null
  /\ ValidTransform(TheAreaState, t)
  /\ Unclamped(TheAreaState, t, call.args[1])
  /\ call.result.zoom # t.zoom
  /\ centerInSceneCoord(TheAreaState, call.result) # centerInSceneCoord(TheAreaState, t)
  /\ call.args[3] = "view"

\* C5: for a valid transform and a point p of the view, toViewCoord of
\* toSceneCoord(p, t, "view") is p; and over a non-empty default domain
\* relative2scene of scene2relative(q) is q.
C5_RoundTrip ==
  /\ (/\ call # Null /\ call.fn = "toSceneCoord" /\ call.args[2] = "view"
      /\ ValidTransform(TheAreaState, t)) =>
       PEquals(toViewCoord(TheAreaState, call.result, t, "scene"), call.args[1])
  /\ (/\ call # Null /\ call.fn = "scene2relative"
      /\ ~isEmpty(TheAreaState.sceneMainDomain)) =>
       PEquals(relative2scene(TheAreaState, call.result), call.args[1])

\* A point of the view away from the centre of the view goes to the scene
\* under a transform that is not the identity.
C5_Witness ==
  /\ call # Null /\ call.fn = "toSceneCoord" /\ call.args[2] = "view"
  /\ ValidTransform(TheAreaState, t)
  /\ call.result # call.args[1]
  /\ t.zoom # ZoomZero
  /\ ~isEmpty(TheAreaState.sceneMainDomain)
  /\ sceneDefaultRect # Null

\* C7: for every transform and every geometry, constraintTransform leaves
\* its own result unchanged, and so does constraintCenter without a previous
\* centre.
C7_ClampingIdempotent ==
  /\ (call # Null /\ call.fn = "constraintTransform") =>
       constraintTransform(TheAreaState, call.result) = call.result
  /\ (call # Null /\ call.fn = "constraintCenter") =>
       constraintCenter(TheAreaState, call.result, Null) = call.result

\* ------------------------------------------------------------------------
\*   Properties of the mouse listener
\* ------------------------------------------------------------------------
\* The calls emitted for the press followed: from its pointer-down to its
\* pointer-up, or to now while the button is down.
PressCalls ==
  SubSeq(emitted, press.mark + 1, IF press.up THEN press.end ELSE Len(emitted))

IsGestureCall(e) ==
  e.handler \in {"onClick", "onMouseDown", "onMouseMove", "onMouseUp", "dispatch"}
IsClick(e) == e.handler = "onClick"
IsMouseCall(e) == e.handler \in {"onClick", "onMouseDown", "onMouseMove", "onMouseUp"}
IsMove(e) == e.handler = "onMouseMove"

\* The sum of the movements the events of the calls carry.
RECURSIVE SumOfMovements(_)
SumOfMovements(calls) ==
  IF calls = <<>> THEN ORIGIN
  ELSE PAdd(Head(calls).ev.movement, SumOfMovements(Tail(calls)))

\* C8: a pointer-down followed by the pointer-up of the same button before
\* the hold timer fires, every position in between less than 5 px from the
\* position of the pointer-down, emits exactly one click and no mouse-down,
\* mouse-move, mouse-up or pan for that press.
C8_ClickOnly ==
  (/\ press # Null /\ press.up /\ press.alone
   /\ press.near /\ ~press.fired) =>
    /\ Len(SelectSeq(PressCalls, IsGestureCall)) = 1
    /\ IsClick(SelectSeq(PressCalls, IsGestureCall)[1])

\* C9: after a pointer-down followed, before the hold timer fires, by a move
\* at 5 px or more from its position, no click is emitted for the press; the
\* deferred mouse-down, carrying the event of the pointer-down, is emitted,
\* then a move; and the movements of the moves emitted sum to the
\* displacement of the pointer since the pointer-down divided by the scale.
C9_DragDeferredDown ==
  (press # Null /\ press.alone /\ press.far) =>
    /\ SelectSeq(PressCalls, IsClick) = <<>>
    /\ Len(SelectSeq(PressCalls, IsMouseCall)) >= 2
    /\ SelectSeq(PressCalls, IsMouseCall)[1] = [handler |-> "onMouseDown", ev |-> press.down]
    /\ IsMove(SelectSeq(PressCalls, IsMouseCall)[2])
    /\ SumOfMovements(SelectSeq(PressCalls, IsMove)) =
         PDivN(PSub(press.endPos, press.startPos), Scale(TheStore))

\* ------------------------------------------------------------------------
\*   Properties of the wheel, the pan and the dispatch
\* ------------------------------------------------------------------------
\* The transform the reducer computes for the wheel action a (newTr).
WheelTarget(s, a) ==
  IF a.kind = "pan" THEN PanBranch(s, BaseTransform(s), a)
  ELSE ZoomBranch(s, BaseTransform(s), a)

\* What C11 says of every wheel event: a zoom has the cursor, in view
\* coordinates, as pivot; a step of at most one level is dispatched without
\* animation and is the transform when the dispatch returns; a larger step
\* carries the animation of 200 ms, not cancelable.
WheelDispatched(s, ev, a) ==
  /\ a.kind = "zoom" =>
       a.zoomCenter = ev.viewCursor /\ a.zoomCenterCoord = "view"
  /\ RLe(RAbs(ev.deltaY), One) =>
       /\ a.animation = Null
       /\ Reduce(s, a).t = WheelTarget(s, a)
       /\ ~Reduce(s, a).animator.running
  /\ RLt(One, RAbs(ev.deltaY)) =>
       a.animation = [duration |-> 200, cancelable |-> FALSE]

\* The dispatch of an animated wheel step leaves the transform as it was.
WheelDeferred(s, ev, a) ==
  RLt(One, RAbs(ev.deltaY)) => Reduce(s, a).t = s.t

\* The same, but for an animation whose start equals its end, played as one
\* frame within the dispatch: the transform is then that frame, which has the
\* relative centre and the zoom of the transform of the reducer's state.
WheelDeferredOrDegenerate(s, ev, s1) ==
  RLt(One, RAbs(ev.deltaY)) =>
    IF s1.animator.running THEN s1.t = s.t
    ELSE /\ s1.t.zoom = s.prevTr.zoom
         /\ centerInRelativeCoord(s.st, s1.t) = centerInRelativeCoord(s.st, s.prevTr)

HalfView(st, tr) == PDivN(st.viewSize, RMul(Two, zoom2scale(st, tr.zoom)))

WithinHalfView(st, tr) ==
  PIn(centerInSceneCoord(st, tr),
      Rect(PSub(st.sceneRect.topLeft, HalfView(st, tr)),
           PAdd(st.sceneRect.bottomRight, HalfView(st, tr))))

\* The scenario: view 400 x 300, scene [0,0]-[1000,750], the centre at
\* (500, 375) after the mount, then pan({x: 10^6, y: 0}).
ScenarioStore == Mounted(IPt(400, 300), IRect(0, 0, 1000, 750), Null)
ScenarioPan == PanAction(IPt(1000000, 0), NoCoord, Null)

ScenarioClamped ==
  /\ centerInSceneCoord(ScenarioStore.st, ScenarioStore.t) = IPt(500, 375)
  /\ WithinHalfView(ScenarioStore.st, Reduce(ScenarioStore, ScenarioPan).t)

\* C12 (as claimed): after every pan without animation, however large, the
\* centre is within half the view of each side of sceneRect; so it is in the
\* scenario.
C12_PanClampedAlways ==
  /\ ScenarioClamped
  /\ dispatched < MaxDispatched =>
       \A a \in DirectPans : WithinHalfView(TheAreaState, Reduce(TheStore, a).t)

\* C12 (amended): a pan without animation, however large, dispatched while
\* the centre it starts from is within half the view of each side of
\* sceneRect, leaves the centre within half the view of each side; so it
\* does in the scenario.
C12_PanClampedFromInside ==
  /\ ScenarioClamped
  /\ (dispatched < MaxDispatched /\ WithinHalfView(TheAreaState, BaseTransform(TheStore))) =>
       \A a \in DirectPans : WithinHalfView(TheAreaState, Reduce(TheStore, a).t)

\* The large pan to the right has been dispatched from a centre inside the
\* scene: the boundary stopped the centre short of the translation asked for.
C12_Witness ==
  /\ dispatched = 1
  /\ ~isEmpty(sceneRect)
  /\ WithinHalfView(TheAreaState, t)
  /\ \E v \in ViewSizes, r \in SceneRects, d \in DefaultRects :
       /\ WithinHalfView(Mounted(v, r, d).st, Mounted(v, r, d).t)
       /\ TheAreaState = Mounted(v, r, d).st
       /\ t = Reduce(Mounted(v, r, d), PanAction(IPt(1000, 0), NoCoord, Null)).t
       /\ RLt(Center(Mounted(v, r, d)).x, Center(TheStore).x)
       /\ RLt(Center(TheStore).x, R(1000))

\* ------------------------------------------------------------------------
\*   Properties of the linked views
\* ------------------------------------------------------------------------
\* zoom clamped to the zoom range of the area state st.
ClampedZoom(st, zoom) == RMin(RMax(zoom, st.minZoom), st.maxZoom)

\* The store p holds the transform tr of a view of area state st, as a
\* view receiving it holds it: the relative centre of tr, its zoom clamped
\* to the zoom range of p, no animation in flight.
HoldsShared(p, st, tr) ==
  /\ p.t = Transform(relativeTransform(st, tr).center, ClampedZoom(p.st, tr.zoom), "relative")
  /\ ~p.animator.running

\* This view has processed an action that changed its transform: the other
\* view has published nothing in the step.
LocalChange == t' # t /\ peer'.published = Null

\* C13: when an action changes the transform of a view of a link group,
\* the other view of the group holds, at the end of the same step, the same
\* relative centre and the zoom clamped to its own zoom range.
LinkedFollows ==
  LocalChange =>
    \A v \in {viewSize'}, r \in {sceneRect'}, d \in {sceneDefaultRect'}, tn \in {t'}, p \in {peer'} :
      HoldsShared(p, AreaState(v, r, d, R(MaxScale)), tn)

C13_LinkedDelivery == [][LinkedFollows]_vars

\* ------------------------------------------------------------------------
\*   Properties of the safeguards and of the dispatch
\* ------------------------------------------------------------------------
\* constraintCenter has to reset the centre of tr: a component of the
\* centre is NaN, or the sceneRect of st is empty.
ResetsCenter(st, tr) == PHasNaN(tr.center) \/ isEmpty(st.sceneRect)

\* The function fn has been called and has returned.
Returns(fn) == call # Null /\ call.fn = fn

\* The actions that set or move the centre, without animation.
CenterActions ==
  {a \in SetTransformActions \cup SetCenterActions \cup PanActions : a.animation = Null}
    \cup {SetTransformAction(tr, Null) : tr \in Transforms}

\* The centre requested by the action a is reset: the sceneRect is empty, or
\* a sets a transform whose centre has a NaN component.
ResetByAction(s, a) ==
  \/ isEmpty(s.st.sceneRect)
  \/ a.kind = "transform" /\ PHasNaN(a.transform.center)

\* C14: constraintCenter returns the origin as centre, and the zoom and the
\* coordinate tag it was given, whenever the centre has a NaN component or
\* the sceneRect is empty; so do setTransform (up to the clamping of its
\* zoom), setCenter, pan and a change of geometry.
C14_CenterReset ==
  /\ (Returns("constraintCenter") /\ ResetsCenter(TheAreaState, call.args[1])) =>
       call.result = [call.args[1] EXCEPT !.center = ORIGIN]
  /\ \A a \in CenterActions :
       ResetByAction(TheStore, a) => Reduce(TheStore, a).t.center = ORIGIN
  /\ Reduce(TheStore, SetSceneRectAction(EMPTY)).t.center = ORIGIN

C14_Witness ==
  /\ Returns("constraintCenter")
  /\ PHasNaN(call.args[1].center)
  /\ ~isEmpty(sceneRect)
  /\ call.result.center = ORIGIN
  /\ call.result.zoom = call.args[1].zoom

\* Neither NaN nor infinite.
FinitePoint(p) == \A c \in Axes : IsFinite(p[c])
FiniteTransform(tr) == IsFinite(tr.zoom) /\ FinitePoint(tr.center)

\* The actions carrying a transform, valid or not.
TransformPayloads ==
  {SetTransformAction(tr, Null) : tr \in Transforms}
    \cup {SyncTransformAction(tr) : tr \in Transforms}

\* C15: the transform is finite, and whatever the payload of an action,
\* NaN included, the transform after its dispatch has a finite zoom and a
\* finite centre, none of them NaN.
C15_TransformFinite ==
  /\ FiniteTransform(t)
  /\ dispatched < MaxDispatched =>
       \A a \in TransformPayloads : FiniteTransform(Reduce(TheStore, a).t)

\* The transforms received from the link group: those of the other view, and
\* one in scene coordinates whose zoom is below the zoom range.
SyncPayloads == SyncedTransforms \cup {Transform(IPt(-5, 7), Q(1, 1000), "scene")}

\* The store s1 holds the transform tt received by the store s: its centre
\* and its tag, its zoom clamped, no animation, no animation target.
Authoritative(s, tt, s1) ==
  /\ s1.t = [tt EXCEPT !.zoom = ClampedZoom(s.st, tt.zoom)]
  /\ ~s1.animator.running
  /\ s1.animationTarget = Null

\* C16: after syncTransform(tt) the transform has the centre and the tag of
\* tt and its zoom clamped to [minZoom, maxZoom], no animation is running
\* and no animation target is kept, whether or not an animation was in
\* flight.
C16_SyncAuthoritative ==
  \A tt \in SyncPayloads :
    Authoritative(TheStore, tt, Reduce(TheStore, SyncTransformAction(tt)))

\* A syncTransform arrives during an animation that cannot be cancelled.
C16_Witness ==
  /\ animator.running
  /\ animationTarget # Null
  /\ ~isEmpty(sceneRect)
  /\ \E tt \in SyncPayloads :
       /\ tt.center # t.center
       /\ Reduce(TheStore, SyncTransformAction(tt)).t.center = tt.center
       /\ Reduce(TheStore, SyncTransformAction(tt)).animator = Idle

\* The transform the animation in flight in the store s is heading to: the
\* target kept for an animation that cannot be cancelled, the last frame
\* otherwise.
HeadingTo(s) ==
  IF s.animationTarget # Null THEN s.animationTarget ELSE FinalFrame(s.st, s.animator)

\* The store s once its animation has come to its end.
Arrived(s) == Accept(StopAnimator(s), HeadingTo(s))

\* The direct actions on the transform, without animation.
DirectActions ==
  {a \in SetTransformActions \cup SetCenterActions \cup ZoomActions \cup PanActions
           \cup EnsureVisibleActions : a.animation = Null}

\* The action a dispatched on the store s stops the animation and leaves
\* the transform it leaves when dispatched once the animation has arrived.
ResumesFromTarget(s, a) ==
  /\ ~Reduce(s, a).animator.running
  /\ Reduce(s, a).t = Reduce(Arrived(s), a).t

\* C17: a direct action dispatched during an animation stops it and is
\* applied on top of the transform the animation was heading to, whatever
\* the cancelable option of the animation.
C17_ResumesFromTarget ==
  (animator.running /\ dispatched < MaxDispatched) =>
    \A a \in DirectActions : ResumesFromTarget(TheStore, a)

\* The actions on the transform that carry an animation option.
AnimatedActions ==
  {a \in SetTransformActions \cup SetCenterActions \cup ZoomActions \cup PanActions
           \cup EnsureVisibleActions : a.animation # Null}

\* The dispatch of a on the store s changes neither the transform of the
\* reducer's state nor ZoomTransform.transform.
KeepsTransform(s, a) ==
  /\ Reduce(s, a).t = s.t
  /\ Reduce(s, a).prevTr = s.prevTr

\* C18: the dispatch of an action carrying an animation option, when it
\* starts an animation, leaves the transform of the reducer's state and
\* ZoomTransform.transform as they were before it.
C18_AnimatedDispatchKeepsTransform ==
  dispatched < MaxDispatched =>
    \A a \in AnimatedActions :
      Reduce(TheStore, a).animator.running => KeepsTransform(TheStore, a)

\* This view has processed no syncTransform in the step: the other view
\* has published nothing.
NothingReceived == peer'.published = Null

\* C19: with a sync bus attached, a step of the view in which it receives
\* nothing from the bus publishes a transform if and only if the transform
\* after the step differs from the transform before it, in centre, zoom or
\* coordinate tag.
PublishedIffChanged == NothingReceived => ((t' # t) <=> (published' # Null))

C19_PublishIffChanged == [][PublishedIffChanged]_vars

\* The geometry actions that report the values the store s holds.
SameGeometry(s) ==
  {SetViewSizeAction(s.st.viewSize), SetSceneRectAction(s.st.sceneRect),
   SetSceneDefaultRectAction(s.st.sceneDefaultRect)}

\* C20: the dispatch of viewSize, sceneRect or sceneDefaultRect with the
\* value the store holds changes nothing: the transform, the geometry and
\* the animation in flight are kept and nothing is published.
C20_GeometryIdempotent ==
  dispatched < MaxDispatched =>
    \A a \in SameGeometry(TheStore) : Reduce(TheStore, a) = TheStore

\* ------------------------------------------------------------------------
\*   Properties of the geometry, of the events and of the animation
\* ------------------------------------------------------------------------
\* The centre p, relative, is not clamped by the area state st at the zoom
\* st clamps zoom to: the scene is not empty and p lies within the boundary
\* of the centre.
NoClamping(st, p, zoom) ==
  /\ ~isEmpty(st.sceneRect)
  /\ ~PHasNaN(p)
  /\ PIn(p, centerBoundaries(st, Transform(p, constraintZoom(st, zoom), "relative")))

\* The store s1 follows the store s by a sceneDefaultRect action: its
\* transform is relative and, unless clamped, has the relative centre s
\* held in its own default domain.
RelativeCenterKept(s, s1) ==
  /\ s1.t.coord = "relative"
  /\ NoClamping(s1.st, centerInRelativeCoord(s.st, s.t), s.t.zoom) =>
       s1.t.center = centerInRelativeCoord(s.st, s.t)

FitScale(v, r) == RMin(RDiv(v.x, RSub(r.bottomRight.x, r.topLeft.x)),
                       RDiv(v.y, RSub(r.bottomRight.y, r.topLeft.y)))

\* C22 (as claimed): defaultScale is the smallest ratio of viewSize to the
\* size of sceneDefaultRect, and 1 when sceneDefaultRect is empty or the
\* view has no width or no height.
C22_DefaultScaleOfDefaultRect ==
  (Returns("defaultScale") /\ call.args[2] # Null) =>
    call.result = IF isEmpty(call.args[2]) \/ PHasZero(call.args[1]) THEN One
                  ELSE FitScale(call.args[1], call.args[2])

\* The domain of the scale: sceneDefaultRect, or sceneRect r when there is
\* none or an empty one.
ScaleDomain(r, d) == IF d = Null \/ isEmpty(d) THEN r ELSE d

\* C22 (amended): defaultScale is 1e-8 above the smallest ratio of viewSize
\* to the size of the main domain, which is sceneDefaultRect, or sceneRect
\* when sceneDefaultRect is missing or empty; it is 1 when the main domain
\* is empty or the view has no width or no height.
C22_DefaultScaleOfMainDomain ==
  Returns("defaultScale") =>
    call.result = IF isEmpty(ScaleDomain(sceneRect, call.args[2])) \/ PHasZero(call.args[1])
                  THEN One
                  ELSE RAdd(FitScale(call.args[1], ScaleDomain(sceneRect, call.args[2])), Eps)

\* defaultScale has been read over an empty sceneDefaultRect and a scene
\* that is not empty: it is the scale of the scene, not 1.
C22_Witness ==
  /\ Returns("defaultScale")
  /\ call.args[2] = EMPTY
  /\ ~isEmpty(sceneRect)
  /\ ~PHasZero(call.args[1])
  /\ call.result # One

\* The transform tr of a view of area state st as a triple in scene
\* coordinates.
SceneTriple(st, tr) ==
  <<centerInSceneCoord(st, tr).x, centerInSceneCoord(st, tr).y, tr.zoom>>

\* C23: when the view publishes its transform, the value handed to the host
\* is the triple (center.x, center.y, zoom) of that transform with the
\* centre in scene coordinates, whatever the tag of the transform.
C23_PersistedInSceneCoord ==
  published # Null => HandedToHost = SceneTriple(TheAreaState, t)

\* The calls of the handlers of "events", those of dispatch left out.
IsEventCall(e) == e.handler # "dispatch"

\* The event of the call e has the scene position of its view position under
\* the transform of the store s.
ConsistentPositions(s, e) == e.ev.cursor = view2scene(s, e.ev.viewCursor)

\* The calls from the one after the first before of the sequence calls are
\* consistent under the transform of s.
ConsistentFrom(s, calls, before) ==
  \A i \in (before + 1)..Len(calls) :
    IsEventCall(calls[i]) => ConsistentPositions(s, calls[i])

\* C24: every event emitted in a step carries, as cursor, the scene position
\* of its viewCursor under the transform the step found, the moves emitted
\* when a pending press becomes a drag included.
EmitsConsistentPositions ==
  \A calls \in {emitted'} : ConsistentFrom(TheStore, calls, Len(emitted))

C24_ConsistentPositions == [][EmitsConsistentPositions]_vars

\* The transform the reducer computes for the action a on the transform
\* (newTr), before the animation branch.
ActionTarget(s, a) ==
  CASE a.kind = "transform" -> SetTransformBranch(s, a)
    [] a.kind = "center" -> SetCenterBranch(s, BaseTransform(s), a)
    [] a.kind = "zoom" -> ZoomBranch(s, BaseTransform(s), a)
    [] a.kind = "pan" -> PanBranch(s, BaseTransform(s), a)
    [] a.kind = "ensureVisible" -> EnsureVisibleBranch(s, a)

\* t1 and t2 have the same zoom and the same centre in relative coordinates.
SameRelative(st, t1, t2) ==
  /\ t1.zoom = t2.zoom
  /\ centerInRelativeCoord(st, t1) = centerInRelativeCoord(st, t2)

\* The animation of a on s would start where it ends.
StartIsEnd(s, a) == SameRelative(s.st, ActionTarget(s, a), Stopped(s).prevTr)

C26_TimerCleared ==
  (press # Null /\ press.alone /\ (press.up \/ press.far \/ press.fired)) =>
    clickTimers[press.button] = Null

\* The step is a pointer-move received by the node.
IsPointerMove == pointer.inside /\ pointer'.inside /\ pointer'.pos # pointer.pos

\* b is the one button whose slot is held.
OnlyPending(b) ==
  /\ clickTimers[b] # Null
  /\ \A o \in (0..4) \ {b} : clickTimers[o] = Null

\* What C27 says of a pointer-move to p while the slot of b is pending.
MoveOnPending(b, p) ==
  IF NormLt(PSub(p, clickTimers[b].startPos), R(5))
  THEN /\ emitted' = emitted
       /\ clickTimers'[b] = [clickTimers[b] EXCEPT !.lastPos = p]
  ELSE /\ clickTimers'[b] = Null
       /\ Len(emitted') > Len(emitted)
       /\ emitted'[Len(emitted) + 1] =
            [handler |-> "onMouseDown", ev |-> clickTimers[b].mouseDownEvent]

MovesOnPending ==
  IsPointerMove =>
    \A b \in 0..4 : OnlyPending(b) => \A p \in {pointer'.pos} : MoveOnPending(b, p)

\* C27: while the slot of any button is pending, a pointer-move at less than
\* 5 px from the start of the slot emits nothing and only updates the last
\* position of the slot; a move at 5 px or more empties the slot and delivers
\* the deferred mouse-down, whichever the button of the press.
C27_SlotsIndependent == [][MovesOnPending]_vars

\* The calls of click, mouse-down and mouse-up made for the button of the
\* press followed.
OfPress(e) ==
  /\ e.handler \in {"onClick", "onMouseDown", "onMouseUp"}
  /\ e.ev.button = press.button

\* Either one click, or one mouse-down and later one mouse-up.
ClickOrDrag(k) ==
  \/ Len(k) = 1 /\ k[1].handler = "onClick"
  \/ Len(k) = 2 /\ k[1].handler = "onMouseDown" /\ k[2].handler = "onMouseUp"

\* A completed press is a click or a drag, a drag if its hold timer fired.
ClickOrDragPerPress ==
  (press # Null /\ press.up /\ press.alone) =>
    /\ ClickOrDrag(SelectSeq(PressCalls, OfPress))
    /\ press.fired => Len(SelectSeq(PressCalls, OfPress)) = 2

\* The hold timer of the button b fires in the step.
Fires(b) == received' = received /\ clickTimers[b] # Null /\ clickTimers'[b] = Null

\* The timer emits the mouse-down kept in the slot, then at once a move
\* carrying the movement ignored since the pointer-down.
FiresDownThenMove ==
  \A b \in 0..4 :
    Fires(b) =>
      \A calls \in {emitted'} :
        /\ Len(calls) >= Len(emitted) + 2
        /\ calls[Len(emitted) + 1] =
             [handler |-> "onMouseDown", ev |-> clickTimers[b].mouseDownEvent]
        /\ calls[Len(emitted) + 2].handler = "onMouseMove"
        /\ calls[Len(emitted) + 2].ev.movement =
             PDivN(PSub(clickTimers[b].lastPos, clickTimers[b].startPos), Scale(TheStore))

\* C28: click and drag exclude one another for every press: between the
\* pointer-down and the pointer-up of a button, either one click and no
\* mouse-down or mouse-up is emitted for it, or one mouse-down and later one
\* mouse-up and no click; the hold timer, when it fires first, emits the
\* mouse-down then at once a move carrying (lastPos - startPos) / scale, and
\* the pointer-up then emits mouse-up.
C28_ClickXorDrag == []ClickOrDragPerPress /\ [][FiresDownThenMove]_vars

\* A press whose hold timer fired before its button was released.
C28_Witness == press # Null /\ press.up /\ press.alone /\ press.fired

\* The rectangles asked to be made visible.
VisibleRects == {IRect(1, 1, 3, 2), Rect(ORIGIN, Pt(Q(1, 4), Q(1, 4))), IRect(2, 0, 10, 3)}

\* The rectangle outer contains the rectangle inner.
Encloses(outer, inner) ==
  \A c \in Axes : /\ RLe(outer.topLeft[c], inner.topLeft[c])
                  /\ RLe(inner.bottomRight[c], outer.bottomRight[c])

\* The two rectangles have the same extent along the axis c.
SameAlong(c, r1, r2) ==
  r1.topLeft[c] = r2.topLeft[c] /\ r1.bottomRight[c] = r2.bottomRight[c]

\* What C29 says of the transform tr that ensureVisible(r) leaves in st.
MadeVisible(st, r, tr) ==
  /\ tr.coord = "relative"
  /\ tr.center = scene2relative(st, RectCenter(r))
  /\ tr.zoom = scale2zoom(st, PMin(PDiv(st.viewSize, RectSize(r))))
  /\ Encloses(transform2VisibleArea(st, tr), r)
  /\ \E c \in Axes : SameAlong(c, transform2VisibleArea(st, tr), r)

\* C29 as stated: after ensureVisible(rect) without animation, in any
\* geometry, the transform is relative, centred on rect at the zoom that fits
\* rect in the view, and its visible area contains rect and coincides with it
\* along an axis.
C29_EnsureVisibleAnywhere ==
  dispatched < MaxDispatched =>
    \A r \in VisibleRects :
      MadeVisible(TheAreaState, r, Reduce(TheStore, EnsureVisibleAction(r, Null)).t)

\* C29, amended: the same, in a geometry whose main domain is not empty.
C29_EnsureVisible ==
  (dispatched < MaxDispatched /\ ~isEmpty(TheAreaState.sceneMainDomain)) =>
    \A r \in VisibleRects :
      MadeVisible(TheAreaState, r, Reduce(TheStore, EnsureVisibleAction(r, Null)).t)

\* ensureVisible of a rectangle wider than the view's aspect has been
\* dispatched without animation on a scene that is not empty: the transform is
\* the one it computes.
C29_Witness ==
  /\ dispatched > 0
  /\ ~isEmpty(TheAreaState.sceneMainDomain)
  /\ t = visibleArea2Transform(TheAreaState, IRect(1, 1, 3, 2))
  /\ ~animator.running

\* The domains of the visible layers among layers.
VisibleDomains(layers) == {layers[i].domain : i \in {j \in DOMAIN layers : layers[j].visible}}

\* rect is the bounding rectangle of the rectangles of domains: it contains
\* each of them and each of its four sides touches one of them.
BoundingRect(rect, domains) ==
  /\ \A d \in domains : Encloses(rect, d)
  /\ \A c \in Axes : /\ \E d \in domains : rect.topLeft[c] = d.topLeft[c]
                     /\ \E d \in domains : rect.bottomRight[c] = d.bottomRight[c]

\* C30: the scene rect View2D supplies is the bounding rectangle of the
\* domains of the visible layers: it contains each of them, and each of its
\* four sides touches the domain of a visible layer.
C30_SceneRectOfVisibleLayers ==
  (Returns("sceneRect") /\ VisibleDomains(call.args) # {}) =>
    BoundingRect(call.result, VisibleDomains(call.args))

\* At most one timeout is armed, and one is armed exactly while a call of
\* saveWithTimeout has not been followed by save_changes.
OneSaveTimer ==
  /\ Cardinality(jmodel.timers) <= 1
  /\ jmodel.timers # {} <=> jmodel.unsaved > 0
  /\ jmodel.timers # {} <=> jmodel.syncTimeout # Null

\* save_changes runs once, SaveDelay after the last call of saveWithTimeout,
\* and leaves no timeout armed.
SavesWhenQuiet ==
  \A m \in {jmodel'} :
    m.saved # jmodel.saved =>
      /\ m.saved = jmodel.saved + 1
      /\ jmodel.quiet >= SaveDelay
      /\ jmodel.unsaved > 0
      /\ m.timers = {}

\* C31: save_changes runs only when 300 ms have elapsed since the last call
\* of saveWithTimeout; calls each less than 300 ms after the previous one are
\* followed by one save_changes, after the last of them; and at most one
\* timeout is armed at any time.
C31_SaveDebounced ==
  /\ []OneSaveTimer
  /\ [][SavesWhenQuiet]_vars
  /\ (jmodel.unsaved > 0 ~> jmodel.unsaved = 0)

\* Three calls less than 300 ms apart have been followed by one save_changes.
C31_Witness ==
  jmodel.calls = 3 /\ jmodel.saved = 1 /\ jmodel.unsaved = 0

\* The products of two vectors and the square of the norm of a vector.
Dot(p, q) == RAdd(RMul(p.x, q.x), RMul(p.y, q.y))
Cross(p, q) == RSub(RMul(p.x, q.y), RMul(p.y, q.x))
NormSq(p) == Dot(p, p)

\* The vector from the centre of the default domain to the relative centre
\* of the transform tr.
FromDomainCenter(st, tr) == PSub(centerInRelativeCoord(st, tr), Pt(Half, Half))

\* The wheel event ev is turned into a pan in the state of the model.
WheelPans(ev) ==
  /\ t.zoom = TheAreaState.minZoom /\ ~IsNaN(t.zoom) /\ RLt(Zero, ev.deltaY)
  /\ dispatched < MaxDispatched /\ HasNorm(WheelPanCenter(TheStore))

\* What C32 says of the pan a and of the transform newTr it leads to: the
\* pan points away from the centre of the domain, the centre does not get
\* closer to it, and the pan is no longer than deltaY.
PansAway(s, ev, a, newTr) ==
  /\ Cross(a.pan, WheelPanCenter(s)) = Zero
  /\ RLe(Zero, Dot(a.pan, WheelPanCenter(s)))
  /\ RLe(NormSq(WheelPanCenter(s)), NormSq(FromDomainCenter(s.st, newTr)))
  /\ RLe(NormSq(a.pan), RMul(ev.deltaY, ev.deltaY))

\* C32 as stated: the pan that replaces a zoom-out at minZoom points from the
\* centre of the default domain toward the current centre, the distance of
\* the centre to the centre of the domain does not decrease, and the
\* magnitude of the pan is at most deltaY.
C32_WheelPanAway ==
  \A ev \in WheelEvents :
    WheelPans(ev) =>
      PansAway(TheStore, ev, onWheel(TheStore, ev), WheelTarget(TheStore, onWheel(TheStore, ev)))

\* The pan points toward the centre of the domain and stops at it at the
\* latest, the pan is no longer than half deltaY and, when no animation is
\* in flight, the centre does not get farther from the centre of the domain.
PansBack(s, ev, a, newTr) ==
  /\ Cross(a.pan, WheelPanCenter(s)) = Zero
  /\ RLe(Dot(a.pan, WheelPanCenter(s)), Zero)
  /\ RLe(NormSq(a.pan), NormSq(WheelPanCenter(s)))
  /\ RLe(NormSq(a.pan), RMul(RMul(Half, ev.deltaY), RMul(Half, ev.deltaY)))
  /\ ~s.animator.running =>
       RLe(NormSq(FromDomainCenter(s.st, newTr)), NormSq(WheelPanCenter(s)))

\* C32, amended: the pan points from the current centre toward the centre of
\* the default domain, in relative coordinates, and is the shorter of that
\* vector and of half deltaY; when no animation is in flight the centre gets
\* no farther from the centre of the domain.
C32_WheelPanBack ==
  \A ev \in WheelEvents :
    WheelPans(ev) =>
      PansBack(TheStore, ev, onWheel(TheStore, ev), WheelTarget(TheStore, onWheel(TheStore, ev)))

\* A zoom-out at minZoom whose pan brings the centre closer to the centre of
\* the domain.
C32_Witness ==
  \E ev \in WheelEvents :
    /\ WheelPans(ev)
    /\ ~animator.running
    /\ RLt(NormSq(FromDomainCenter(TheAreaState, WheelTarget(TheStore, onWheel(TheStore, ev)))),
           NormSq(WheelPanCenter(TheStore)))

\* The geometry built anew from the inputs of the state.
FreshArea == AreaState(viewSize, sceneRect, sceneDefaultRect, R(MaxScale))

\* The value the getter of the last call would return on a geometry built
\* anew; minScale is a getter of the class, not a field of the record.
FreshValue(fn) ==
  CASE fn = "get defaultScale" -> FreshArea.defaultScale
    [] fn = "get minScale" -> minScale(FreshArea)
    [] fn = "get minZoom" -> FreshArea.minZoom
    [] fn = "get maxZoom" -> FreshArea.maxZoom
    [] fn = "get relativeSceneBoundaries" -> FreshArea.relativeSceneBoundaries

DerivedGetters ==
  {"get defaultScale", "get minScale", "get minZoom", "get maxZoom",
   "get relativeSceneBoundaries"}

\* No getter returns a stale value.
NeverStale == (call # Null /\ call.fn \in DerivedGetters) => call.result = FreshValue(call.fn)

\* C33: after any sequence of updates of viewSize, sceneRect and
\* sceneDefaultRect no getter returns a stale value, and the getters agree:
\* minZoom = scale2zoom(minScale) and maxZoom = scale2zoom(maxScale), with
\* minScale = 1 for an empty sceneRect.
C33_DerivedConsistent ==
  /\ NeverStale
  /\ Returns("get minScale") /\ isEmpty(sceneRect) => call.result = One
  /\ Returns("get minZoom") => call.result = scale2zoom(FreshArea, minScale(FreshArea))
  /\ Returns("get maxZoom") => call.result = scale2zoom(FreshArea, FreshArea.maxScale)

\* The easing the reducer chooses for the zoom channel of the animated
\* action a, which gives no keys.
ChosenEasing(s, a) == ZoomEasing(Stopped(s), BaseTransform(s), ActionTarget(s, a))

\* The zoom of newTr is above the zoom z by less than half a level: on the
\* factors, the square of the ratio is below 2.
SmallIncrease(z, newTr) ==
  /\ RLe(z, newTr.zoom)
  /\ RLt(RMul(RDiv(newTr.zoom, z), RDiv(newTr.zoom, z)), Two)

\* The centre of newTr is closer to the centre of s than half the larger
\* dimension of the view, in pixels.
CloseInView(s, newTr) ==
  NormLt(PMulN(PSub(centerInSceneCoord(s.st, s.prevTr), centerInSceneCoord(s.st, newTr)),
               Scale(s)),
         RDiv(PMax(s.st.viewSize), Two))

\* The middle key of the three-key animation, sqrt(z + 1) - 1 for the zoom
\* level z of the start, is not above z: that is z >= 0 or z = -1, on the
\* factors 1 <= f or f = 1/2.
MiddleKeyNotAbove(f) == RLe(One, f) \/ f = Half

\* What C34 says of the easing chosen at rest for a target newTr.
DefaultEasing(s, newTr, easing) ==
  IF RLt(newTr.zoom, s.prevTr.zoom) THEN easing = "cubicOut"
  ELSE IF SmallIncrease(s.prevTr.zoom, newTr) \/ CloseInView(s, newTr)
       THEN easing = "cubicInOut"
  ELSE easing = "three" /\ MiddleKeyNotAbove(s.prevTr.zoom)

\* C34: without explicit keys, a target zoom below the current zoom eases
\* out; otherwise a small zoom increase, or a target centre closer than half
\* the larger view dimension on the screen, uses one in-out segment; only a
\* large zoom-in over a large distance uses the three-key animation, whose
\* middle key is not above the starting zoom.
C34_DefaultEasing ==
  (dispatched < MaxDispatched /\ ~animator.running) =>
    \A a \in AnimatedActions :
      DefaultEasing(TheStore, ActionTarget(TheStore, a), ChosenEasing(TheStore, a))

\* The transform the store s holds after the transform p of the other view
\* was delivered to it: p with its zoom within the bounds of s.
Synced(s, p) == [p EXCEPT !.zoom = constraintZoom(s.st, p.zoom)]

\* The store s published the transform it holds, and the store q was
\* delivered it once and published nothing in return.
DeliveredOnce(s, q) ==
  s.published # Null =>
    /\ s.published = relativeTransform(s.st, s.t)
    /\ q.t = Synced(q, s.published)
    /\ q.published = Null

\* This view as the store of a link group, with what it last published.
ThisStore == [TheStore EXCEPT !.published = published]

\* C35: no echo in a link group of two views: the store that is delivered
\* the transform of the other view publishes nothing in return, so a change
\* of one view makes one delivery, and the store that published holds the
\* transform it published, not one delivered back to it; this holds also
\* when the delivered zoom is outside the bounds of the receiving view.
C35_NoEcho ==
  /\ DeliveredOnce(ThisStore, peer)
  /\ DeliveredOnce(peer, ThisStore)

\* This view published a transform whose zoom the other view had to bring
\* within its own bounds, and the other view published nothing.
C35_Witness ==
  /\ 0 < dispatched
  /\ published # Null
  /\ peer.t.zoom # published.zoom
  /\ peer.published = Null

\* C36: in every state visibleArea is transform2VisibleArea of the
\* transform, the rectangle of the scene around the centre in scene
\* coordinates whose size is viewSize / scale (stated where the zoom is a
\* whole number of levels).
C36_VisibleAreaOfTransform ==
  HasLevel(t.zoom) => visibleArea(TheStore) = transform2VisibleArea(TheAreaState, t)

\* Nothing is done on behalf of the listener in this step: no handler is
\* called, nothing is dispatched and no pan starts.
ListenerSilent == emitted' = emitted /\ ctrls' = ctrls /\ t' = t

\* C37: once the listeners are removed from the node no handler is called
\* any more: a hold timer armed before does not deliver its mouse-down and
\* its move, and starts no pan.
C37_SilentAfterTeardown == [][~listening => ListenerSilent]_vars

\* The calls to dispatch with a pan action, among the calls of the sequence
\* calls.
PanCalls(calls) ==
  {i \in 1..Len(calls) : calls[i].handler = "dispatch" /\ calls[i].ev.kind = "pan"}

\* In this step panning starts only by the mouse-down of a drag of button 0
\* or 1 being delivered, and a pan is dispatched only with panning on.
PanningByDrag ==
  /\ (~ctrls.panning /\ ctrls'.panning) =>
       /\ Len(emitted') > Len(emitted)
       /\ emitted'[Len(emitted) + 1].handler = "onMouseDown"
       /\ emitted'[Len(emitted) + 1].ev.button \in {0, 1}
  /\ PanCalls(emitted') # PanCalls(emitted) => ctrls'.panning

\* panning is off once the pointer has left the node, until the next
\* pointer-down.
OffOutside == ~pointer.inside => ~ctrls.panning

\* C38: with the default handlers panning starts only at the drag-start of
\* button 0 or 1, pans are dispatched only while it is on, and it is off
\* after a pointer-leave until the next pointer-down, also when the pointer
\* left during the pending window of a press.
C38_PanningOnlyInDrag ==
  /\ [][listening => PanningByDrag]_vars
  /\ [](listening => OffOutside)

\* The frame has the zoom of the target and its centre in scene coordinates.
LandsOn(st, frame, target) ==
  /\ frame.zoom = target.zoom
  /\ centerInSceneCoord(st, frame) = centerInSceneCoord(st, target)

\* The animation the store s runs ends on the target, which is the
\* animationTarget the store has recorded, if any.
EndsOn(s, target) ==
  /\ LandsOn(s.st, FinalFrame(s.st, s.animator), target)
  /\ s.animationTarget # Null => s.animationTarget = target

\* The animated actions dispatched on the store s: those of the inputs and
\* those the default wheel handler makes of a wheel step of two levels, a
\* zoom around the cursor or, at the minimal zoom, a pan.
Launched(s) ==
  AnimatedActions \cup
  {onWheel(s, ev) : ev \in {e \in WheelEvents : HasNorm(WheelPanCenter(s)) /\ WheelAnimation(e) # Null}}

\* C39: the last frame of the animation an animated action launches has the
\* zoom and the centre, in scene coordinates, of the transform the reducer
\* computed for the action and recorded as animationTarget; so it is for an
\* action dispatched during a non-cancelable animation and for a zoom
\* around a pivot.
C39_LandsOnTarget ==
  dispatched < MaxDispatched =>
    \A a \in Launched(TheStore) :
      Reduce(TheStore, a).animator.running =>
        EndsOn(Reduce(TheStore, a), ActionTarget(TheStore, a))
====
